---- MODULE Spec2Model ----
(***************************************************************************)
(* RefugeLink backend: the WhatsApp webhook route, the message pipeline    *)
(* (MessageService.processMessage, DialogflowService.getResponse), the     *)
(* response formatter and the Twilio signature verifier.                   *)
(*                                                                         *)
(* Strings are TLA+ strings (TLC evaluates Len, \o and SubSeq on them), so *)
(* trimming, lower-casing, substring tests and message rendering are       *)
(* computed the way the TypeScript computes them.  Glyphs outside ASCII in *)
(* the source literals (the bullet U+2022, the siren emoji) are written    *)
(* with the ASCII stand-ins Bullet and Siren.                              *)
(***************************************************************************)
EXTENDS Integers, Sequences, FiniteSets, TLC

VARIABLES
    env,          \* run -> EnvironmentConfig (static readonly fields)
    svc,          \* run -> DialogflowService fields, NotBuilt before the constructor
    db,           \* the reference data behind the three repositories
    pc,           \* run -> position of the request of that run
    req,          \* run -> the HTTP request on the webhook route
    http,         \* run -> what the middleware chain did: next() calls, responses sent
    log,          \* run -> records the winston logger emitted since the request began
    call,         \* run -> arguments of the processMessage call
    frame,        \* run -> where getResponse is: try/catch block, path, handler
    fetch,        \* run -> outstanding and settled repository calls of the handler
    trace,        \* run -> calls made for the message: detectIntent, handlers
    result,       \* run -> outcome of getResponse and of processMessage
    verifier,     \* TwilioService instance and its last validateWebhookSignature call
    keys,         \* the generateSessionId calls made so far: sender and session key
    rendered      \* the last composition made on its own: operation and BotResponse

vars == <<env, svc, db, pc, req, http, log, call, frame, fetch, trace, result, verifier, keys, rendered>>

(***************************************************************************)
(* Optional values (undefined / null / absent header) and string helpers.  *)
(***************************************************************************)
None == <<>>
Some(v) == <<v>>
IsSome(o) == o # None
\* JavaScript truthiness of an optional string: undefined, null and '' are falsy
Truthy(o) == o # None /\ o[1] # ""

CharAt(s, i) == SubSeq(s, i, i)

RECURSIVE Rep(_, _)
\* String.prototype.repeat
Rep(s, n) ==
    IF n <= 0 THEN ""
    ELSE LET half == Rep(s, n \div 2)
         IN  half \o half \o (IF n % 2 = 1 THEN s ELSE "")

SetMin(S) == CHOOSE x \in S : \A y \in S : x <= y
SetMax(S) == CHOOSE x \in S : \A y \in S : x >= y

IsWhitespace(c) == c \in {" ", "\t", "\n", "\r"}

\* String.prototype.trim
Trim(s) ==
    LET keep == {i \in 1..Len(s) : ~IsWhitespace(CharAt(s, i))}
    IN  IF keep = {} THEN "" ELSE SubSeq(s, SetMin(keep), SetMax(keep))

UpperLetters == "ABCDEFGHIJKLMNOPQRSTUVWXYZ"
LowerLetters == "abcdefghijklmnopqrstuvwxyz"

LowerChar(c) ==
    LET hit == {i \in 1..Len(UpperLetters) : CharAt(UpperLetters, i) = c}
    IN  IF hit = {} THEN c ELSE CharAt(LowerLetters, SetMin(hit))

RECURSIVE LowerRange(_, _, _)
LowerRange(s, lo, hi) ==
    IF lo > hi THEN ""
    ELSE IF lo = hi THEN LowerChar(CharAt(s, lo))
    ELSE LET mid == (lo + hi) \div 2
         IN  LowerRange(s, lo, mid) \o LowerRange(s, mid + 1, hi)

\* String.prototype.toLowerCase
ToLowerCase(s) == LowerRange(s, 1, Len(s))

\* String.prototype.includes
Includes(s, kw) ==
    \E i \in 1..(Len(s) - Len(kw) + 1) : SubSeq(s, i, i + Len(kw) - 1) = kw

\* String.prototype.slice(0, n) and slice(-n)
SliceHead(s, n) == SubSeq(s, 1, IF n < Len(s) THEN n ELSE Len(s))
SliceTail(s, n) == SubSeq(s, (IF n < Len(s) THEN Len(s) - n ELSE 0) + 1, Len(s))

RECURSIVE Join(_, _)
\* Array.prototype.join
Join(lines, sep) ==
    IF lines = <<>> THEN ""
    ELSE IF Len(lines) = 1 THEN lines[1]
    ELSE lines[1] \o sep \o Join(Tail(lines), sep)

\* Array.prototype.filter
Filter(rows, test(_)) == SelectSeq(rows, test)

Map(rows, f(_)) == [i \in 1..Len(rows) |-> f(rows[i])]

Bullet == "*"
Siren == "!!"

(***************************************************************************)
(* Program constants: src/utils/constants.ts and the message literals.     *)
(***************************************************************************)
INTENT_NAMES ==
    [FIND_REGISTRATION |-> "find_registration", FIND_FOOD |-> "find_food",
     FIND_SHELTER |-> "find_shelter", FIND_HEALTHCARE |-> "find_healthcare",
     FIND_EMERGENCY_CONTACTS |-> "find_emergency_contacts",
     WELCOME |-> "welcome", FALLBACK |-> "Default Fallback Intent"]

QUICK_REPLIES ==
    [REGISTRATION |-> <<"Contact Details", "Required Documents", "Registration Steps">>,
     FOOD |-> <<"Settlement Info", "WFP Contacts", "Distribution Points">>,
     HEALTHCARE |-> <<"Emergency Number", "Hospital Info", "Settlement Clinics">>,
     SHELTER |-> <<"Settlement Info", "WFP Contacts", "Distribution Points">>,
     GENERAL |-> <<"More Info", "Contact Support", "Main Menu">>]

\* processMessage: the longest text passed on to getResponse
MaxMessageLength == 500

\* A BotResponse; quickReplies None when the field is absent
Reply(message, quickReplies) == [message |-> message, quickReplies |-> quickReplies]

InstructionResponse ==
    Reply("Please send a message with your question. I can help with registration, food, shelter, healthcare, and emergency contacts.", None)

TooLongResponse ==
    Reply("Your message is too long. Please keep your questions brief and focused on one topic at a time.", None)

ProcessingErrorResponse ==
    Reply("Sorry, I encountered an error while processing your message. Please try again in a moment.", None)

NoFulfillmentMessage == "I apologize, but I could not process your request."

BuiltInFallbackResponse ==
    Reply("I'm here to help with registration, food, shelter, healthcare, and emergency contacts for refugees in Mbarara. What specific information do you need?", None)

CustomDefaultResponse ==
    Reply("I can help you with registration, food, shelter, healthcare, and emergency contacts. What specific information do you need?", None)

(***************************************************************************)
(* ResponseFormatter (src/utils/responseFormatter.ts).                     *)
(***************************************************************************)
\* Array.prototype.sort with the comparator (a, b) => key(a) - key(b): ascending
\* by key, rows of equal key keep their order (the sort is stable)
SortByKey(rows, key(_)) ==
    LET n == Len(rows)
        rank(i) == Cardinality({j \in 1..n : key(rows[j]) < key(rows[i])
                                             \/ (key(rows[j]) = key(rows[i]) /\ j < i)}) + 1
    IN  [p \in 1..n |-> rows[CHOOSE i \in 1..n : rank(i) = p]]

\* Variant of formatRegistrationResponse that renders the steps in the order given
\* (sensitivity of C26)
formatRegistrationResponseUnsorted(steps, documents, contacts) ==
    LET stepLine(step) == ToString(step.step_number) \o ". " \o step.title \o ": " \o step.description
        docLine(doc) == Bullet \o " " \o doc.document_name
                        \o (IF doc.is_essential THEN " (Essential)" ELSE "")
    IN  Reply("I can help with refugee registration. Here's the process:\n\n"
              \o Join(Map(steps, stepLine), "\n") \o "\n\nRequired Documents:\n"
              \o Join(Map(documents, docLine), "\n")
              \o "\n\nWould you like more details about any specific step?",
              Some(QUICK_REPLIES.REGISTRATION))

formatRegistrationResponse(steps, documents, contacts) ==
    LET byNumber(step) == step.step_number
        stepLine(step) == ToString(step.step_number) \o ". " \o step.title \o ": " \o step.description
        docLine(doc) == Bullet \o " " \o doc.document_name
                        \o (IF doc.is_essential THEN " (Essential)" ELSE "")
        stepDescriptions == Join(Map(SortByKey(steps, byNumber), stepLine), "\n")
        documentList == Join(Map(documents, docLine), "\n")
    IN  Reply("I can help with refugee registration. Here's the process:\n\n"
              \o stepDescriptions \o "\n\nRequired Documents:\n" \o documentList
              \o "\n\nWould you like more details about any specific step?",
              Some(QUICK_REPLIES.REGISTRATION))

serviceLine(service) ==
    Bullet \o " " \o service.organization \o ": " \o service.services
    \o (IF service.location # "" THEN " (" \o service.location \o ")" ELSE "")

formatFoodResponse(services) ==
    LET isFood(service) == service.category = "Food" \/ Includes(service.organization, "WFP")
        foodServices == Filter(services, isFood)
    IN  IF Len(foodServices) = 0
        THEN Reply("Food assistance is primarily provided by the World Food Programme (WFP) to registered refugees in settlements. Please ensure you are registered with OPM to access these services.",
                   Some(QUICK_REPLIES.FOOD))
        ELSE Reply("Food assistance options:\n\n" \o Join(Map(foodServices, serviceLine), "\n")
                   \o "\n\nNote: Most food aid requires official registration and is distributed through settlements.",
                   Some(QUICK_REPLIES.FOOD))

formatHealthcareResponse(services, contacts) ==
    LET isHealth(service) == service.category = "Health"
        isEmergency(contact) == contact.type = "Emergency" \/ contact.type = "Hospital"
        healthServices == Filter(services, isHealth)
        emergencyContacts == Filter(contacts, isEmergency)
        healthLine(service) ==
            Bullet \o " " \o service.organization \o ": " \o service.services
            \o (IF service.contact_phone # "" THEN " - " \o service.contact_phone ELSE "")
        contactLine(contact) ==
            Bullet \o " " \o contact.entity \o ": " \o contact.phone
            \o (IF contact.description # "" THEN " - " \o contact.description ELSE "")
    IN  Reply("Healthcare services available:\n\n"
              \o (IF Len(healthServices) > 0 THEN Join(Map(healthServices, healthLine), "\n") ELSE "")
              \o (IF Len(emergencyContacts) > 0
                  THEN "\n\nEmergency Contacts:\n" \o Join(Map(emergencyContacts, contactLine), "\n")
                  ELSE ""),
              Some(QUICK_REPLIES.HEALTHCARE))

\* `contact.phone || contact.email` then the optional description
emergencyLine(contact) ==
    Bullet \o " " \o contact.entity \o ": "
    \o (IF contact.phone # "" THEN contact.phone ELSE contact.email)
    \o (IF contact.description # "" THEN " - " \o contact.description ELSE "")

\* Variant of formatEmergencyContacts that renders the contacts in the order given,
\* under the heading of the first one (sensitivity of C24)
formatEmergencyContactsUnpartitioned(contacts) ==
    Reply(Siren \o " **Emergency & Important Contacts**\n\n"
          \o (IF Len(contacts) > 0
              THEN "**URGENT CONTACTS:**\n" \o Join(Map(contacts, emergencyLine), "\n")
              ELSE ""),
          Some(<<"More Contacts", "Registration Help", "Healthcare Info">>))

\* Variant of formatEmergencyContacts whose general block keeps every contact that
\* is not of type Emergency, flagged urgent or not (sensitivity of C25)
formatEmergencyContactsOverlapping(contacts) ==
    LET isUrgent(contact) == contact.is_urgent \/ contact.type = "Emergency"
        isGeneral(contact) == contact.type # "Emergency"
        urgentFirst(contact) == 0 - (IF contact.is_urgent THEN 1 ELSE 0)
        urgentContacts == SortByKey(Filter(contacts, isUrgent), urgentFirst)
        generalContacts == Filter(contacts, isGeneral)
    IN  Reply(Siren \o " **Emergency & Important Contacts**\n\n"
              \o (IF Len(urgentContacts) > 0
                  THEN "**URGENT CONTACTS:**\n" \o Join(Map(urgentContacts, emergencyLine), "\n")
                  ELSE "")
              \o (IF Len(generalContacts) > 0
                  THEN "\n\n**OTHER IMPORTANT CONTACTS:**\n" \o Join(Map(generalContacts, emergencyLine), "\n")
                  ELSE ""),
              Some(<<"More Contacts", "Registration Help", "Healthcare Info">>))

formatEmergencyContacts(contacts) ==
    LET isUrgent(contact) == contact.is_urgent \/ contact.type = "Emergency"
        isGeneral(contact) == ~contact.is_urgent /\ contact.type # "Emergency"
        \* (a, b) => (b.is_urgent ? 1 : 0) - (a.is_urgent ? 1 : 0)
        urgentFirst(contact) == 0 - (IF contact.is_urgent THEN 1 ELSE 0)
        urgentContacts == SortByKey(Filter(contacts, isUrgent), urgentFirst)
        generalContacts == Filter(contacts, isGeneral)
    IN  Reply(Siren \o " **Emergency & Important Contacts**\n\n"
              \o (IF Len(urgentContacts) > 0
                  THEN "**URGENT CONTACTS:**\n" \o Join(Map(urgentContacts, emergencyLine), "\n")
                  ELSE "")
              \o (IF Len(generalContacts) > 0
                  THEN "\n\n**OTHER IMPORTANT CONTACTS:**\n" \o Join(Map(generalContacts, emergencyLine), "\n")
                  ELSE ""),
              Some(<<"More Contacts", "Registration Help", "Healthcare Info">>))

\* Variant of formatErrorResponse that tells the user what went wrong
\* (sensitivity of C18)
formatErrorResponseWithDetail(error) ==
    Reply("Sorry, I encountered an error while processing your request. Please try again or contact support if the issue persists."
          \o (IF IsSome(error) THEN " (" \o error[1] \o ")" ELSE ""), None)

\* the error argument is accepted and not used
formatErrorResponse(error) ==
    Reply("Sorry, I encountered an error while processing your request. Please try again or contact support if the issue persists.", None)

formatWelcomeResponse ==
    Reply("Hello! I'm here to provide information for refugees and displaced people in Mbarara. I can help you find information about registration, food, shelter, healthcare, and emergency contacts. What do you need help with today?",
          Some(<<"Registration", "Food", "Shelter", "Healthcare", "Emergency Contacts">>))

\* the rendering part of DialogflowService.handleShelterIntent
shelterResponse(services) ==
    IF Len(services) = 0
    THEN Reply("Shelter assistance is arranged through the official registration process with OPM. You need to report to the OPM Refugee Desk to be assigned a place in a settlement. Would you like their contact information?",
               Some(<<"OPM Contact", "Registration Info", "Main Menu">>))
    ELSE Reply("Shelter assistance options:\n\n" \o Join(Map(services, serviceLine), "\n")
               \o "\n\nNote: Most shelter assistance requires official registration with OPM.",
               Some(<<"OPM Contact", "Registration Steps", "More Info">>))

(***************************************************************************)
(* Configuration and logger (src/config/env.ts, src/config/logger.ts).     *)
(***************************************************************************)
Runs == {"a", "b"}

NodeEnvs == {"production", "development"}
AuthTokens == {"", "tok-live"}
LogLevelNames == {"info", "debug"}
ProjectIds == {"", "refugelink-agent"}

Environments ==
    [nodeEnv : NodeEnvs, twilioAccountSid : {"", "AC-live"}, twilioAuthToken : AuthTokens,
     logLevel : LogLevelNames, dialogflowEnabled : BOOLEAN, dialogflowProjectId : ProjectIds]

isProduction(cfg) == cfg.nodeEnv = "production"

\* winston's npm levels: a record is emitted iff its level is at most the logger's
LevelRank(level) ==
    CASE level = "error" -> 0 [] level = "warn" -> 1 [] level = "info" -> 2
      [] level = "http" -> 3 [] level = "verbose" -> 4 [] level = "debug" -> 5
      [] OTHER -> 6

\* AppLogger.<level>(message): the records this call adds to the log
AppLogger(cfg, level, message) ==
    IF LevelRank(level) <= LevelRank(cfg.logLevel) THEN {<<level, message>>} ELSE {}

(***************************************************************************)
(* Reference data and the repositories' queries.  Each table is held in    *)
(* the order the query's ORDER BY yields.                                  *)
(***************************************************************************)
EmptyDb == [services |-> <<>>, contacts |-> <<>>, steps |-> <<>>, documents |-> <<>>]

SampleDb ==
    [services |-> <<
        [category |-> "Food", organization |-> "WFP Mbarara", services |-> "Monthly rations",
         location |-> "Nakivale", contact_phone |-> ""],
        [category |-> "Health", organization |-> "Mbarara Clinic", services |-> "Primary care",
         location |-> "", contact_phone |-> "+256700000111"],
        [category |-> "Shelter", organization |-> "UNHCR", services |-> "Settlement plots",
         location |-> "Oruchinga", contact_phone |-> ""]>>,
     contacts |-> <<
        [entity |-> "Police", type |-> "Emergency", phone |-> "999", email |-> "",
         description |-> "24h line", is_urgent |-> TRUE],
        [entity |-> "OPM Desk", type |-> "General", phone |-> "", email |-> "opm@example.org",
         description |-> "", is_urgent |-> FALSE],
        [entity |-> "Mbarara Referral", type |-> "Hospital", phone |-> "+256700000222", email |-> "",
         description |-> "Casualty ward", is_urgent |-> FALSE]>>,
     steps |-> <<
        [step_number |-> 1, title |-> "Report", description |-> "Go to the OPM desk"],
        [step_number |-> 2, title |-> "Interview", description |-> "Status interview"]>>,
     documents |-> <<
        [document_name |-> "Passport", is_essential |-> TRUE],
        [document_name |-> "School card", is_essential |-> FALSE]>>]

Snapshots == {EmptyDb, SampleDb}

Query(fn, arg) == [fn |-> fn, arg |-> arg]

\* the rows a repository call returns when the database answers without error
QueryName(q) == q.fn \o "(" \o q.arg \o ")"

\* Variant of QueryRows in which getServicesByCategory does not filter by category
\* (sensitivity of C23)
QueryRowsAnyCategory(data, q) ==
    LET ofType(contact) == contact.type = q.arg
    IN  CASE q.fn = "getServicesByCategory" -> data.services
          [] q.fn = "getContactsByType" -> Filter(data.contacts, ofType)
          [] q.fn = "getAllContacts" -> data.contacts
          [] q.fn = "getAllSteps" -> data.steps
          [] q.fn = "getRequiredDocuments" -> data.documents

QueryRows(data, q) ==
    LET ofCategory(service) == service.category = q.arg
        ofType(contact) == contact.type = q.arg
    IN  CASE q.fn = "getServicesByCategory" -> Filter(data.services, ofCategory)
          [] q.fn = "getContactsByType" -> Filter(data.contacts, ofType)
          [] q.fn = "getAllContacts" -> data.contacts
          [] q.fn = "getAllSteps" -> data.steps
          [] q.fn = "getRequiredDocuments" -> data.documents

(***************************************************************************)
(* DialogflowService: keyword resolution, override set, handlers.          *)
(***************************************************************************)
\* Variant of BuiltInIntent that tests the emergency keywords before the food
\* keywords (sensitivity of C9)
BuiltInIntentEmergencyFirst(message) ==
    LET lowerMessage == Trim(ToLowerCase(message))
        has(kw) == Includes(lowerMessage, kw)
    IN  IF has("register") \/ has("registration") \/ has("opm") THEN "Registration"
        ELSE IF has("emergency") \/ has("help") \/ has("contact") THEN "EmergencyContacts"
        ELSE IF has("food") \/ has("hungry") \/ has("eat") THEN "Food"
        ELSE IF has("shelter") \/ has("place to stay") \/ has("sleep") THEN "Shelter"
        ELSE IF has("health") \/ has("hospital") \/ has("doctor") \/ has("sick") THEN "Healthcare"
        ELSE IF has("hello") \/ has("hi") \/ has("start") THEN "Welcome"
        ELSE "Fallback"

\* the if / else-if chain of handleMessageWithBuiltInLogic
BuiltInIntent(message) ==
    LET lowerMessage == Trim(ToLowerCase(message))
        has(kw) == Includes(lowerMessage, kw)
    IN  IF has("register") \/ has("registration") \/ has("opm") THEN "Registration"
        ELSE IF has("food") \/ has("hungry") \/ has("eat") THEN "Food"
        ELSE IF has("shelter") \/ has("place to stay") \/ has("sleep") THEN "Shelter"
        ELSE IF has("health") \/ has("hospital") \/ has("doctor") \/ has("sick") THEN "Healthcare"
        ELSE IF has("emergency") \/ has("help") \/ has("contact") THEN "EmergencyContacts"
        ELSE IF has("hello") \/ has("hi") \/ has("start") THEN "Welcome"
        ELSE "Fallback"

shouldUseCustomLogic(intent) ==
    intent \in {INTENT_NAMES.FIND_REGISTRATION, INTENT_NAMES.FIND_FOOD, INTENT_NAMES.FIND_SHELTER,
                INTENT_NAMES.FIND_HEALTHCARE, INTENT_NAMES.FIND_EMERGENCY_CONTACTS}

\* the switch of handleIntentWithCustomLogic: the handler an intent name selects
CustomHandler(intent) ==
    CASE intent = INTENT_NAMES.FIND_REGISTRATION -> "Registration"
      [] intent = INTENT_NAMES.FIND_FOOD -> "Food"
      [] intent = INTENT_NAMES.FIND_SHELTER -> "Shelter"
      [] intent = INTENT_NAMES.FIND_HEALTHCARE -> "Healthcare"
      [] intent = INTENT_NAMES.FIND_EMERGENCY_CONTACTS -> "EmergencyContacts"
      [] OTHER -> "Default"

\* the repository calls each handle<X>Intent issues before awaiting them
HandlerQueries(handler) ==
    CASE handler = "Registration" ->
            {Query("getAllSteps", ""), Query("getRequiredDocuments", ""),
             Query("getContactsByType", "General")}
      [] handler = "Food" -> {Query("getServicesByCategory", "Food")}
      [] handler = "Shelter" -> {Query("getServicesByCategory", "Shelter")}
      [] handler = "Healthcare" ->
            {Query("getServicesByCategory", "Health"), Query("getContactsByType", "Hospital")}
      [] handler = "EmergencyContacts" -> {Query("getAllContacts", "")}
      [] OTHER -> {}

\* what handle<X>Intent returns once all of its repository calls are fulfilled
HandlerResponse(handler, data) ==
    CASE handler = "Registration" ->
            formatRegistrationResponse(QueryRows(data, Query("getAllSteps", "")),
                                       QueryRows(data, Query("getRequiredDocuments", "")),
                                       QueryRows(data, Query("getContactsByType", "General")))
      [] handler = "Food" -> formatFoodResponse(QueryRows(data, Query("getServicesByCategory", "Food")))
      [] handler = "Shelter" -> shelterResponse(QueryRows(data, Query("getServicesByCategory", "Shelter")))
      [] handler = "Healthcare" ->
            formatHealthcareResponse(QueryRows(data, Query("getServicesByCategory", "Health")),
                                     QueryRows(data, Query("getContactsByType", "Hospital")))
      [] handler = "EmergencyContacts" -> formatEmergencyContacts(QueryRows(data, Query("getAllContacts", "")))

(***************************************************************************)
(* MessageService helpers: session id and phone masking.                   *)
(***************************************************************************)
Base64Alphabet == "ABCDEFGHIJKLMNOPQRSTUVWXYZabcdefghijklmnopqrstuvwxyz0123456789+/"

DigitChars == "0123456789"

IndexIn(alphabet, c) ==
    LET hit == {i \in 1..Len(alphabet) : CharAt(alphabet, i) = c}
    IN  IF hit = {} THEN 0 ELSE SetMin(hit)

\* Buffer.from(s): the byte of an ASCII character (digits, letters and the
\* punctuation of channel addresses)
ByteOf(c) ==
    IF IndexIn(DigitChars, c) > 0 THEN 47 + IndexIn(DigitChars, c)
    ELSE IF IndexIn(UpperLetters, c) > 0 THEN 64 + IndexIn(UpperLetters, c)
    ELSE IF IndexIn(LowerLetters, c) > 0 THEN 96 + IndexIn(LowerLetters, c)
    ELSE CASE c = " " -> 32 [] c = "+" -> 43 [] c = "-" -> 45 [] c = "." -> 46
           [] c = ":" -> 58 [] c = "@" -> 64 [] c = "_" -> 95 [] OTHER -> 63

Base64Char(n) == CharAt(Base64Alphabet, (n % 64) + 1)

RECURSIVE Base64From(_, _)
Base64From(s, i) ==
    LET left == Len(s) - i + 1
        b1 == ByteOf(CharAt(s, i))
        b2 == IF left >= 2 THEN ByteOf(CharAt(s, i + 1)) ELSE 0
        b3 == IF left >= 3 THEN ByteOf(CharAt(s, i + 2)) ELSE 0
        n == b1 * 65536 + b2 * 256 + b3
    IN  IF left <= 0 THEN ""
        ELSE Base64Char(n \div 262144) \o Base64Char(n \div 4096)
             \o (IF left >= 2 THEN Base64Char(n \div 64) ELSE "=")
             \o (IF left >= 3 THEN Base64Char(n) ELSE "=")
             \o Base64From(s, i + 3)

\* Buffer.from(s).toString('base64')
ToBase64(s) == Base64From(s, 1)

\* Variant of generateSessionId that uses the sender id itself (sensitivity of C15)
generateSessionIdRaw(userPhone) == userPhone

generateSessionId(userPhone) == "user-" \o SliceHead(ToBase64(userPhone), 16)

maskPhoneNumber(phone) ==
    IF Len(phone) < 4 THEN "***" ELSE SliceHead(phone, 2) \o "***" \o SliceTail(phone, 2)

(***************************************************************************)
(* Twilio request signature.  The HMAC-SHA1 of the URL and the sorted body *)
(* parameters under the auth token is modelled as an ideal keyed hash: two *)
(* signatures are equal iff key, URL and parameters are equal.             *)
(***************************************************************************)
ExpectedSignature(authToken, url, params) == [key |-> authToken, url |-> url, params |-> params]

\* twilio.validateRequest parses the URL (new URL(url)) and throws on a malformed one
UrlMalformed(url) == Includes(url, " ")

\* Variant of validateRequest that never compares the signatures (sensitivity of C6)
validateRequestAcceptAll(authToken, signature, url, params) ==
    IF UrlMalformed(url) THEN "raise" ELSE "valid"

\* twilio.validateRequest(authToken, signature, url, params): "valid", "invalid" or "raise"
validateRequest(authToken, signature, url, params) ==
    IF UrlMalformed(url) THEN "raise"
    ELSE IF signature = ExpectedSignature(authToken, url, params) THEN "valid"
    ELSE "invalid"

\* res.status(status) and the error code or TwiML text sent
HttpResponse(status, body) == [status |-> status, body |-> body]

\* What a middleware did with the request: called next(), or sent responses
Outcome(next, sent, logs) == [next |-> next, sent |-> sent, logs |-> logs]

\* the body parameters Twilio signs
BodyParams(request) == [From |-> request.From, Body |-> request.Body]

\* `${protocol}://${host}${req.originalUrl}`, proxy headers first
ReconstructedUrl(request) ==
    LET protocol == IF Truthy(request.forwardedProto) THEN request.forwardedProto[1] ELSE request.protocol
        host == IF Truthy(request.forwardedHost) THEN request.forwardedHost[1] ELSE request.host
    IN  protocol \o "://" \o host \o request.originalUrl

\* Variant of twilioWebhookValidator without the return after the response to an
\* invalid signature: it goes on to call next (sensitivity of C29)
twilioWebhookValidatorFallsThrough(cfg, request) ==
    IF ~isProduction(cfg)
    THEN Outcome(TRUE, <<>>, AppLogger(cfg, "debug", "Skipping Twilio signature validation in development mode"))
    ELSE LET signature == request.signature
             url == ReconstructedUrl(request)
             authToken == cfg.twilioAuthToken
             validating == AppLogger(cfg, "debug", "Validating Twilio signature")
             verdict == validateRequest(authToken, signature[1], url, BodyParams(request))
         IN  IF signature = None
             THEN Outcome(FALSE, <<HttpResponse(403, "MISSING_SIGNATURE")>>,
                          AppLogger(cfg, "warn", "Missing Twilio signature header"))
             ELSE IF authToken = ""
             THEN Outcome(FALSE, <<HttpResponse(500, "CONFIG_ERROR")>>,
                          validating \cup AppLogger(cfg, "error", "Twilio auth token not configured"))
             ELSE IF verdict = "raise"
             THEN Outcome(FALSE, <<HttpResponse(500, "VALIDATION_ERROR")>>,
                          validating \cup AppLogger(cfg, "error", "Error during Twilio signature validation"))
             ELSE IF verdict = "invalid"
             THEN Outcome(TRUE, <<HttpResponse(403, "INVALID_SIGNATURE")>>,
                          validating \cup AppLogger(cfg, "warn", "Invalid Twilio webhook signature"))
             ELSE Outcome(TRUE, <<>>,
                          validating \cup AppLogger(cfg, "debug", "Twilio signature validation successful"))

twilioWebhookValidator(cfg, request) ==
    IF ~isProduction(cfg)
    THEN Outcome(TRUE, <<>>, AppLogger(cfg, "debug", "Skipping Twilio signature validation in development mode"))
    ELSE LET signature == request.signature
             url == ReconstructedUrl(request)
             authToken == cfg.twilioAuthToken
             validating == AppLogger(cfg, "debug", "Validating Twilio signature")
             verdict == validateRequest(authToken, signature[1], url, BodyParams(request))
         IN  IF signature = None
             THEN Outcome(FALSE, <<HttpResponse(403, "MISSING_SIGNATURE")>>,
                          AppLogger(cfg, "warn", "Missing Twilio signature header"))
             ELSE IF authToken = ""
             THEN Outcome(FALSE, <<HttpResponse(500, "CONFIG_ERROR")>>,
                          validating \cup AppLogger(cfg, "error", "Twilio auth token not configured"))
             ELSE IF verdict = "raise"
             THEN Outcome(FALSE, <<HttpResponse(500, "VALIDATION_ERROR")>>,
                          validating \cup AppLogger(cfg, "error", "Error during Twilio signature validation"))
             ELSE IF verdict = "invalid"
             THEN Outcome(FALSE, <<HttpResponse(403, "INVALID_SIGNATURE")>>,
                          validating \cup AppLogger(cfg, "warn", "Invalid Twilio webhook signature"))
             ELSE Outcome(TRUE, <<>>,
                          validating \cup AppLogger(cfg, "debug", "Twilio signature validation successful"))

(***************************************************************************)
(* Payload validation (src/middleware/requestValidator.ts).                *)
(***************************************************************************)
\* RequestValidator.validateTwilioWebhookPayload: the longest Body accepted
MaxBodyLength == 1000

\* the longest digit run /^whatsapp:\+\d{1,15}$/ accepts
MaxPhoneDigits == 15

WhatsAppPrefix == "whatsapp:+"

\* /^whatsapp:\+\d{1,15}$/.test(s)
PhoneRegexTest(s) ==
    LET n == Len(s) - Len(WhatsAppPrefix)
    IN  /\ n >= 1
        /\ n <= MaxPhoneDigits
        /\ SliceHead(s, Len(WhatsAppPrefix)) = WhatsAppPrefix
        /\ \A i \in (Len(WhatsAppPrefix) + 1)..Len(s) : IndexIn(DigitChars, CharAt(s, i)) > 0

\* None when the payload is accepted, else the ValidationError's message
\* Variant of validateTwilioWebhookPayload without the check of the body length
\* (sensitivity of C30)
validateTwilioWebhookPayloadUnbounded(payload) ==
    LET isMissing(field) == ~Truthy(payload[field])
        missingFields == Filter(<<"From", "Body">>, isMissing)
    IN  IF Len(missingFields) > 0
        THEN Some("Missing required fields: " \o Join(missingFields, ", "))
        ELSE IF ~PhoneRegexTest(payload.From[1])
        THEN Some("Invalid phone number format. Expected format: whatsapp:+1234567890")
        ELSE IF Len(Trim(payload.Body[1])) = 0
        THEN Some("Message body cannot be empty")
        ELSE None

validateTwilioWebhookPayload(payload) ==
    LET isMissing(field) == ~Truthy(payload[field])
        missingFields == Filter(<<"From", "Body">>, isMissing)
    IN  IF Len(missingFields) > 0
        THEN Some("Missing required fields: " \o Join(missingFields, ", "))
        ELSE IF ~PhoneRegexTest(payload.From[1])
        THEN Some("Invalid phone number format. Expected format: whatsapp:+1234567890")
        ELSE IF Len(Trim(payload.Body[1])) = 0
        THEN Some("Message body cannot be empty")
        ELSE IF Len(payload.Body[1]) > MaxBodyLength
        THEN Some("Message body too long. Maximum 1000 characters allowed")
        ELSE None

\* the middleware around it
validateTwilioWebhook(cfg, request) ==
    LET error == validateTwilioWebhookPayload(BodyParams(request))
        validating == AppLogger(cfg, "debug", "Validating Twilio webhook request")
    IN  IF error = None
        THEN Outcome(TRUE, <<>>, validating \cup AppLogger(cfg, "debug", "Twilio webhook validation passed"))
        ELSE Outcome(FALSE, <<HttpResponse(400, "VALIDATION_ERROR")>>,
                     validating \cup AppLogger(cfg, "warn", "Twilio webhook validation failed"))

(***************************************************************************)
(* The message pipeline of one run.  A run's control state m is the record *)
(* [pc, frame, fetch, trace, result, log]; each operator below is one      *)
(* function of MessageService / DialogflowService, run up to its next      *)
(* await of I/O (the detectIntent call or the repository calls).           *)
(***************************************************************************)
NoFrame == [block |-> "none", path |-> "none", handler |-> "none"]
NoFetch == [inflight |-> {}, fulfilled |-> {}]
\* gr / pm: how getResponse / processMessage ended; nlu: how detectIntent settled;
\* answers: how each repository query of this message settled; error: the message
\* of the Error in flight (thrown and not yet out of the scope of its catch);
\* failures: how many awaits of handlers were rejected
NoResult ==
    [gr |-> "notcalled", grResponse |-> None, pm |-> "notcalled", pmResponse |-> None,
     nlu |-> None, answers |-> {}, error |-> None, failures |-> 0]

Event(op, path, arg) == [op |-> op, path |-> path, arg |-> arg]

\* processMessage returns a validation message: getResponse is not called
ValidationReturn(m, response) ==
    [m EXCEPT !.pc = "returned",
              !.result = [@ EXCEPT !.pm = "returned", !.pmResponse = Some(response)]]

\* getResponse returned `response`; processMessage logs and returns it
\* Variant of ProcessMessageReturn that awaits a promise nobody settles instead of
\* returning (sensitivity of C20)
ProcessMessageHang(m, cfg, response) ==
    [m EXCEPT !.pc = "awaitFetch", !.fetch = NoFetch]

ProcessMessageReturn(m, cfg, response) ==
    [m EXCEPT !.pc = "returned", !.frame = NoFrame, !.fetch = NoFetch,
              !.result = [@ EXCEPT !.gr = "returned", !.grResponse = Some(response),
                                   !.pm = "returned", !.pmResponse = Some(response),
                                   !.error = None],
              !.log = @ \cup AppLogger(cfg, "info", "Message processed successfully")]

\* Variant of ProcessMessageCatch that rethrows instead of answering (sensitivity of C1)
ProcessMessageRethrow(m, cfg) ==
    [m EXCEPT !.pc = "returned", !.frame = NoFrame, !.fetch = NoFetch,
              !.result = [@ EXCEPT !.gr = "raised", !.pm = "raised", !.error = None]]

\* getResponse raised; the catch block of processMessage
ProcessMessageCatch(m, cfg) ==
    [m EXCEPT !.pc = "returned", !.frame = NoFrame, !.fetch = NoFetch,
              !.result = [@ EXCEPT !.gr = "raised", !.pm = "returned",
                                   !.pmResponse = Some(ProcessingErrorResponse),
                                   !.error = None],
              !.log = @ \cup AppLogger(cfg, "error", "Message processing failed")]

\* handle<X>Intent: issue the repository calls and await them
StartHandler(m, handler, path, block) ==
    [m EXCEPT !.pc = "awaitFetch",
              !.frame = [block |-> block, path |-> path, handler |-> handler],
              !.fetch = [inflight |-> HandlerQueries(handler), fulfilled |-> {}],
              !.trace = Append(@, Event("handler", path, handler))]

\* block: "try" when called from the try block of getResponse, "catch" from its catch
handleMessageWithBuiltInLogic(m, cfg, message, block) ==
    LET intent == BuiltInIntent(message)
        resolved == [m EXCEPT !.trace = Append(@, Event("resolve", "B", intent)),
                              !.frame = [block |-> block, path |-> "B", handler |-> "none"]]
    IN  IF intent = "Welcome" THEN ProcessMessageReturn(resolved, cfg, formatWelcomeResponse)
        ELSE IF intent = "Fallback" THEN ProcessMessageReturn(resolved, cfg, BuiltInFallbackResponse)
        ELSE StartHandler(resolved, intent, "B", block)

\* Variant of GetResponseCatch that resolves the keywords twice (sensitivity of C12)
GetResponseCatchTwice(m, cfg, message) ==
    handleMessageWithBuiltInLogic(
        [m EXCEPT !.trace = Append(@, Event("resolve", "B", BuiltInIntent(message)))],
        cfg, message, "catch")

\* Variant of GetResponseCatch that answers with the apology instead of running the
\* keyword path (sensitivity of C2)
GetResponseCatchApology(m, cfg, message) ==
    ProcessMessageReturn(
        [m EXCEPT !.log = @ \cup AppLogger(cfg, "error", "Error in getResponse")],
        cfg, formatErrorResponse(m.result.error))

\* the catch block of getResponse
GetResponseCatch(m, cfg, message) ==
    handleMessageWithBuiltInLogic(
        [m EXCEPT !.log = @ \cup AppLogger(cfg, "error", "Error in getResponse")],
        cfg, message, "catch")

handleIntentWithCustomLogic(m, cfg, intent) ==
    IF CustomHandler(intent) = "Default"
    THEN ProcessMessageReturn(m, cfg, CustomDefaultResponse)
    ELSE StartHandler(m, CustomHandler(intent), "A", "try")

\* handleMessageWithDialogflow up to the await of detectIntent
handleMessageWithDialogflow(m, cfg, service, message, sessionId) ==
    IF ~service.sessionsClient \/ service.projectId = None
    THEN GetResponseCatch([m EXCEPT !.result = [@ EXCEPT !.error = Some("Dialogflow client not initialized")]],
                          cfg, message)
    ELSE [m EXCEPT !.pc = "awaitDetectIntent",
                   !.frame = [block |-> "try", path |-> "A", handler |-> "none"],
                   !.trace = Append(@, Event("detectIntent", "A", sessionId)),
                   !.log = @ \cup AppLogger(cfg, "debug", "Sending request to Dialogflow")]

\* Variant of DialogflowResult that prefers a returned fulfillmentText to the local
\* handler of an override intent (sensitivity of C10)
DialogflowResultFulfillmentFirst(m, cfg, message, outcome) ==
    LET intent == outcome.intent
        fulfillmentText == outcome.fulfillmentText
        settled == [m EXCEPT !.result = [@ EXCEPT !.nlu = Some(outcome), !.error = outcome.detail]]
    IN  IF outcome.kind # "result"
        THEN GetResponseCatch(settled, cfg, message)
        ELSE IF Truthy(fulfillmentText)
        THEN ProcessMessageReturn(
                 [settled EXCEPT !.trace = Append(@, Event("resolve", "A", "fulfillment"))],
                 cfg, Reply(fulfillmentText[1], None))
        ELSE IF Truthy(intent) /\ shouldUseCustomLogic(intent[1])
        THEN handleIntentWithCustomLogic(
                 [settled EXCEPT !.trace = Append(@, Event("resolve", "A", intent[1]))],
                 cfg, intent[1])
        ELSE ProcessMessageReturn(
                 [settled EXCEPT !.trace = Append(@, Event("resolve", "A", "fulfillment"))],
                 cfg, Reply(NoFulfillmentMessage, None))

\* handleMessageWithDialogflow from the point detectIntent settled with `outcome`
DialogflowResult(m, cfg, message, outcome) ==
    LET intent == outcome.intent
        fulfillmentText == outcome.fulfillmentText
        settled == [m EXCEPT !.result = [@ EXCEPT !.nlu = Some(outcome), !.error = outcome.detail]]
        received == [settled EXCEPT !.log = @ \cup AppLogger(cfg, "debug", "Received Dialogflow response")]
    IN  IF outcome.kind # "result"
        THEN GetResponseCatch(settled, cfg, message)
        ELSE IF Truthy(intent) /\ shouldUseCustomLogic(intent[1])
        THEN handleIntentWithCustomLogic(
                 [received EXCEPT !.trace = Append(@, Event("resolve", "A", intent[1]))],
                 cfg, intent[1])
        ELSE ProcessMessageReturn(
                 [received EXCEPT !.trace = Append(@, Event("resolve", "A", "fulfillment"))],
                 cfg,
                 Reply(IF Truthy(fulfillmentText) THEN fulfillmentText[1] ELSE NoFulfillmentMessage,
                       None))

getResponse(m, cfg, service, message, sessionId) ==
    LET entered == [m EXCEPT !.trace = Append(@, Event("getResponse", "none", sessionId)),
                             !.result = [@ EXCEPT !.gr = "running"]]
    IN  IF ~service.isEnabled
        THEN handleMessageWithBuiltInLogic(entered, cfg, message, "try")
        ELSE handleMessageWithDialogflow(entered, cfg, service, message, sessionId)

\* Variant of processMessage without the length check (sensitivity of C5)
processMessageUnchecked(m, cfg, service, userMessage, userPhone) ==
    IF userMessage = "" \/ Len(Trim(userMessage)) = 0
    THEN ValidationReturn(m, InstructionResponse)
    ELSE getResponse(m, cfg, service, userMessage, generateSessionId(userPhone))

processMessage(m, cfg, service, userMessage, userPhone) ==
    LET entered == [m EXCEPT !.log = @ \cup AppLogger(cfg, "info", "Processing user message")]
    IN  IF userMessage = "" \/ Len(Trim(userMessage)) = 0
        THEN ValidationReturn(entered, InstructionResponse)
        ELSE IF Len(userMessage) > MaxMessageLength
        THEN ValidationReturn(entered, TooLongResponse)
        ELSE getResponse(entered, cfg, service, userMessage, generateSessionId(userPhone))

\* every repository call of the handler is fulfilled: render and return
HandlerFulfilled(m, cfg, data) ==
    ProcessMessageReturn(m, cfg, HandlerResponse(m.frame.handler, data))

\* Variant of HandlerRejected that treats the rejected call as an empty result and
\* renders what there is (sensitivity of C14)
HandlerRejectedPartial(m, cfg, message) ==
    ProcessMessageReturn(m, cfg, HandlerResponse(m.frame.handler, EmptyDb))

\* a repository call of the handler rejected: the await (or Promise.all) throws
HandlerRejected(m, cfg, message) ==
    IF m.frame.path = "A"
    THEN ProcessMessageReturn(
             [m EXCEPT !.log = @ \cup AppLogger(cfg, "error", "Error in custom intent handling")],
             cfg, formatErrorResponse(m.result.error))
    ELSE IF m.frame.block = "try"
    THEN GetResponseCatch(m, cfg, message)
    ELSE ProcessMessageCatch(m, cfg)

\* Variant of NewDialogflowService that enables the service whenever a project id
\* is configured, whatever DIALOGFLOW_ENABLED says (sensitivity of C11)
NewDialogflowServiceIgnoringFlag(cfg, clientOk) ==
    IF cfg.dialogflowProjectId # "" /\ clientOk
    THEN [isEnabled |-> TRUE, sessionsClient |-> TRUE, projectId |-> Some(cfg.dialogflowProjectId)]
    ELSE [isEnabled |-> FALSE, sessionsClient |-> FALSE, projectId |-> None]

\* new DialogflowService(...), clientOk: new SessionsClient() did not throw
\* Variant of NewDialogflowService whose catch block leaves isEnabled as configured
\* when the client cannot be built (sensitivity of C27)
NewDialogflowServiceStaysEnabled(cfg, clientOk) ==
    IF cfg.dialogflowEnabled /\ cfg.dialogflowProjectId # ""
    THEN IF clientOk
         THEN [isEnabled |-> TRUE, sessionsClient |-> TRUE, projectId |-> Some(cfg.dialogflowProjectId)]
         ELSE [isEnabled |-> TRUE, sessionsClient |-> FALSE, projectId |-> None]
    ELSE [isEnabled |-> FALSE, sessionsClient |-> FALSE, projectId |-> None]

NewDialogflowService(cfg, clientOk) ==
    IF cfg.dialogflowEnabled /\ cfg.dialogflowProjectId # ""
    THEN IF clientOk
         THEN [isEnabled |-> TRUE, sessionsClient |-> TRUE, projectId |-> Some(cfg.dialogflowProjectId)]
         ELSE [isEnabled |-> FALSE, sessionsClient |-> FALSE, projectId |-> None]
    ELSE [isEnabled |-> FALSE, sessionsClient |-> FALSE, projectId |-> None]

(***************************************************************************)
(* Inputs.                                                                 *)
(***************************************************************************)
\* the URL the messaging gateway called and signed
GatewayUrl == "https://bot.example.org/webhook/twilio/whatsapp"

Text500 == Rep("a", MaxMessageLength - 4) \o "food"
Text501 == Rep("a", MaxMessageLength + 1)
Blank501 == Rep(" ", MaxMessageLength + 1)
Text1000 == Rep("c", MaxBodyLength)
Text1001 == Rep("b", MaxBodyLength + 1)

DirectTexts ==
    {"", "   ", "I need FOOD in an emergency", "How do I register at OPM?",
     "emergency shelter near the hospital", "  I feel sick\n", "please help me",
     "hello", "xyz", Text500, Text501, Blank501}

DirectSenders == {"whatsapp:+256700000001", "ab"}

WebhookSenders == {None, Some("whatsapp:+256700000001"), Some("whatsapp:256700")}

WebhookBodies ==
    {None, Some("   "), Some("Where can I eat?"), Some(Text501), Some(Text1000), Some(Text1001)}

\* who signed the request: nobody, the gateway (holding the live token), a forger
Signers == {"", "tok-live", "tok-forged"}

\* how the request reached the server: through the TLS proxy that forwards the
\* scheme, without the forwarded scheme, or with a Host header that is no host name
Transports ==
    {[host |-> "bot.example.org", forwardedProto |-> Some("https")],
     [host |-> "bot.example.org", forwardedProto |-> None],
     [host |-> "bot example", forwardedProto |-> Some("https")]}

Requests ==
    {[From |-> from, Body |-> body,
      signature |-> IF signer = "" THEN None
                    ELSE Some(ExpectedSignature(signer, GatewayUrl, [From |-> from, Body |-> body])),
      protocol |-> "http", host |-> via.host, forwardedProto |-> via.forwardedProto,
      forwardedHost |-> None, originalUrl |-> "/webhook/twilio/whatsapp"] :
        from \in WebhookSenders, body \in WebhookBodies, signer \in Signers, via \in Transports}

NluIntents ==
    {None, Some(INTENT_NAMES.FIND_REGISTRATION), Some(INTENT_NAMES.FIND_FOOD),
     Some(INTENT_NAMES.FIND_SHELTER), Some(INTENT_NAMES.FIND_HEALTHCARE),
     Some(INTENT_NAMES.FIND_EMERGENCY_CONTACTS), Some(INTENT_NAMES.WELCOME),
     Some(INTENT_NAMES.FALLBACK)}

NluTexts == {None, Some(""), Some("You can ask me about food or shelter.")}

\* how a detectIntent call settles: it rejects, resolves without queryResult, or
\* resolves with an intent display name and a fulfillment text (either may be absent)
\* what an upstream failure says about itself (error.message)
ErrorDetails == {"14 UNAVAILABLE: upstream connect error", "permission denied for table services"}

NluOutcomes ==
    {[kind |-> "raise", intent |-> None, fulfillmentText |-> None, detail |-> Some(d)] : d \in ErrorDetails}
    \cup {[kind |-> "noResult", intent |-> None, fulfillmentText |-> None,
           detail |-> Some("No response from Dialogflow")]}
    \cup {[kind |-> "result", intent |-> i, fulfillmentText |-> t, detail |-> None] :
              i \in NluIntents, t \in NluTexts}

\* a repository call is fulfilled (None) or rejected with an error of some detail
FetchOutcomes == {None} \cup {Some(d) : d \in ErrorDetails}

DefaultEnvironment ==
    [nodeEnv |-> "development", twilioAccountSid |-> "", twilioAuthToken |-> "",
     logLevel |-> "info", dialogflowEnabled |-> FALSE, dialogflowProjectId |-> ""]

(***************************************************************************)
(* Actions.                                                                *)
(***************************************************************************)
NoHttp == [next |-> <<>>, sent |-> <<>>]

\* Variant of Machine in which the handler frame is a field of the service
\* singleton: a call reads the frame another call in flight wrote last
\* (sensitivity of C19)
MachineSharedFrame(r) ==
    LET writers == {o \in Runs \ {r} : frame[o].handler # "none"}
    IN  [pc |-> pc[r],
         frame |-> IF frame[r].handler # "none" /\ writers # {}
                   THEN frame[CHOOSE o \in writers : TRUE] ELSE frame[r],
         fetch |-> fetch[r], trace |-> trace[r], result |-> result[r], log |-> log[r]]

Machine(r) ==
    [pc |-> pc[r], frame |-> frame[r], fetch |-> fetch[r], trace |-> trace[r],
     result |-> result[r], log |-> log[r]]

Become(r, m) ==
    /\ pc' = [pc EXCEPT ![r] = m.pc]
    /\ frame' = [frame EXCEPT ![r] = m.frame]
    /\ fetch' = [fetch EXCEPT ![r] = m.fetch]
    /\ trace' = [trace EXCEPT ![r] = m.trace]
    /\ result' = [result EXCEPT ![r] = m.result]
    /\ log' = [log EXCEPT ![r] = m.log]

\* application start-up: createDialogflowService builds the singleton
Construct(r) ==
    /\ pc[r] = "boot"
    /\ \E clientOk \in BOOLEAN :
        LET cfg == env[r]
            attempted == cfg.dialogflowEnabled /\ cfg.dialogflowProjectId # ""
        IN  /\ svc' = [svc EXCEPT ![r] = Some(NewDialogflowService(cfg, clientOk))]
            /\ log' = [log EXCEPT ![r] = @ \cup
                        (IF ~attempted
                         THEN AppLogger(cfg, "warn", "Dialogflow is disabled. Using built-in response logic.")
                         ELSE IF clientOk
                         THEN AppLogger(cfg, "info", "Dialogflow service initialized successfully")
                         ELSE AppLogger(cfg, "error", "Failed to initialize Dialogflow client"))]
    /\ pc' = [pc EXCEPT ![r] = "idle"]
    /\ UNCHANGED <<env, db, req, http, call, frame, fetch, trace, result, verifier, keys, rendered>>

\* POST /webhook/twilio/whatsapp arrives
Receive(r) ==
    /\ pc[r] = "idle"
    /\ \E request \in Requests : req' = [req EXCEPT ![r] = Some(request)]
    /\ pc' = [pc EXCEPT ![r] = "twilioWebhookValidator"]
    /\ UNCHANGED <<env, svc, db, http, log, call, frame, fetch, trace, result, verifier, keys, rendered>>

\* a middleware of the route ran: it called next() or it sent a response
Middleware(r, name, outcome, nextStage) ==
    /\ pc[r] = name
    /\ http' = [http EXCEPT ![r] = [next |-> IF outcome.next THEN Append(@.next, name) ELSE @.next,
                                    sent |-> @.sent \o outcome.sent]]
    /\ log' = [log EXCEPT ![r] = @ \cup outcome.logs]
    /\ pc' = [pc EXCEPT ![r] = IF outcome.next THEN nextStage ELSE "done"]
    /\ UNCHANGED <<env, svc, db, req, call, frame, fetch, trace, result, verifier, keys, rendered>>

TwilioWebhookValidator(r) ==
    Middleware(r, "twilioWebhookValidator", twilioWebhookValidator(env[r], req[r][1]),
               "validateTwilioWebhook")

ValidateTwilioWebhook(r) ==
    Middleware(r, "validateTwilioWebhook", validateTwilioWebhook(env[r], req[r][1]),
               "handleWhatsAppWebhook")

\* WebhookController.handleWhatsAppWebhook up to its await of processMessage
HandleWhatsAppWebhook(r) ==
    /\ pc[r] = "handleWhatsAppWebhook"
    /\ LET userMessage == req[r][1].Body[1]
           userPhone == req[r][1].From[1]
           received == [Machine(r) EXCEPT
                          !.log = @ \cup AppLogger(env[r], "info", "Received WhatsApp webhook")]
       IN  /\ call' = [call EXCEPT ![r] = Some([text |-> userMessage, phone |-> userPhone, via |-> "webhook"])]
           /\ Become(r, processMessage(received, env[r], svc[r][1], userMessage, userPhone))
    /\ UNCHANGED <<env, svc, db, req, http, verifier, keys, rendered>>

\* handleWhatsAppWebhook from the point processMessage returned: send the TwiML
SendTwiml(r) ==
    /\ pc[r] = "returned"
    /\ call[r][1].via = "webhook"
    /\ http' = [http EXCEPT ![r].sent = Append(@, HttpResponse(200, result[r].pmResponse[1].message))]
    /\ log' = [log EXCEPT ![r] = @
                \cup (IF IsSome(result[r].pmResponse[1].quickReplies)
                         /\ Len(result[r].pmResponse[1].quickReplies[1]) > 0
                      THEN AppLogger(env[r], "debug", "Quick replies available") ELSE {})
                \cup AppLogger(env[r], "info", "Webhook response sent")]
    /\ pc' = [pc EXCEPT ![r] = "done"]
    /\ UNCHANGED <<env, svc, db, req, call, frame, fetch, trace, result, verifier, keys, rendered>>

\* any other caller of MessageService.processMessage
CallProcessMessage(r, userMessage, userPhone) ==
    /\ pc[r] = "idle"
    /\ call' = [call EXCEPT ![r] = Some([text |-> userMessage, phone |-> userPhone, via |-> "direct"])]
    /\ Become(r, processMessage(Machine(r), env[r], svc[r][1], userMessage, userPhone))
    /\ UNCHANGED <<env, svc, db, req, http, verifier, keys, rendered>>

DirectCall(r) ==
    \E userMessage \in DirectTexts, userPhone \in DirectSenders :
        CallProcessMessage(r, userMessage, userPhone)

\* the detectIntent call settles with one of `outcomes`
DetectIntentSettlesWith(r, outcomes) ==
    /\ pc[r] = "awaitDetectIntent"
    /\ \E outcome \in outcomes :
        Become(r, DialogflowResult(Machine(r), env[r], call[r][1].text, outcome))
    /\ UNCHANGED <<env, svc, db, req, http, call, verifier, keys, rendered>>

DetectIntentSettles(r) == DetectIntentSettlesWith(r, NluOutcomes)

\* one repository call of the running handler settles; the first rejection rejects
\* the await (Promise.all), later settlements of the same batch are discarded
FetchSettles(r) ==
    /\ pc[r] = "awaitFetch"
    /\ \E q \in fetch[r].inflight, outcome \in FetchOutcomes :
        LET left == fetch[r].inflight \ {q}
            ok == outcome = None
            m == [Machine(r) EXCEPT
                    !.result = [@ EXCEPT !.answers = @ \cup {<<QueryName(q), ok>>},
                                         !.error = IF ok THEN @ ELSE Some("Database error: " \o outcome[1]),
                                         !.failures = IF ok THEN @ ELSE @ + 1]]
        IN  IF ~ok
            THEN Become(r, HandlerRejected(m, env[r], call[r][1].text))
            ELSE IF left = {}
            THEN Become(r, HandlerFulfilled(m, env[r], db))
            ELSE Become(r, [m EXCEPT !.fetch = [inflight |-> left, fulfilled |-> @.fulfilled \cup {q}]])
    /\ UNCHANGED <<env, svc, db, req, http, call, verifier, keys, rendered>>

\* Variant of NextRequest with a circuit breaker: a request whose detectIntent call
\* did not give a result leaves the resolver disabled (sensitivity of C28)
NextRequestBreaker(r) ==
    /\ pc[r] = "done" \/ (pc[r] = "returned" /\ call[r][1].via = "direct")
    /\ pc' = [pc EXCEPT ![r] = "idle"]
    /\ req' = [req EXCEPT ![r] = None]
    /\ http' = [http EXCEPT ![r] = NoHttp]
    /\ call' = [call EXCEPT ![r] = None]
    /\ frame' = [frame EXCEPT ![r] = NoFrame]
    /\ fetch' = [fetch EXCEPT ![r] = NoFetch]
    /\ trace' = [trace EXCEPT ![r] = <<>>]
    /\ result' = [result EXCEPT ![r] = NoResult]
    /\ log' = [log EXCEPT ![r] = {}]
    /\ svc' = [svc EXCEPT ![r] = IF result[r].nlu # None /\ result[r].nlu[1].kind # "result"
                                 THEN Some([@[1] EXCEPT !.isEnabled = FALSE]) ELSE @]
    /\ UNCHANGED <<env, db, verifier, keys, rendered>>

\* the request is over; the process serves the next one with the same services
NextRequest(r) ==
    /\ pc[r] = "done" \/ (pc[r] = "returned" /\ call[r][1].via = "direct")
    /\ pc' = [pc EXCEPT ![r] = "idle"]
    /\ req' = [req EXCEPT ![r] = None]
    /\ http' = [http EXCEPT ![r] = NoHttp]
    /\ call' = [call EXCEPT ![r] = None]
    /\ frame' = [frame EXCEPT ![r] = NoFrame]
    /\ fetch' = [fetch EXCEPT ![r] = NoFetch]
    /\ trace' = [trace EXCEPT ![r] = <<>>]
    /\ result' = [result EXCEPT ![r] = NoResult]
    /\ log' = [log EXCEPT ![r] = {}]
    /\ UNCHANGED <<env, svc, db, verifier, keys, rendered>>

NoVerifier == [built |-> FALSE, isConfigured |-> FALSE, last |-> None]

InitRuns(active) ==
    /\ db \in Snapshots
    /\ svc = [r \in Runs |-> None]
    /\ pc = [r \in Runs |-> IF r \in active THEN "boot" ELSE "parked"]
    /\ req = [r \in Runs |-> None]
    /\ http = [r \in Runs |-> NoHttp]
    /\ log = [r \in Runs |-> {}]
    /\ call = [r \in Runs |-> None]
    /\ frame = [r \in Runs |-> NoFrame]
    /\ fetch = [r \in Runs |-> NoFetch]
    /\ trace = [r \in Runs |-> <<>>]
    /\ result = [r \in Runs |-> NoResult]
    /\ verifier = NoVerifier
    /\ keys = <<>>
    /\ rendered = None

\* Configurations explored for the message pipeline: every Dialogflow and logging
\* setting; the Twilio settings, which processMessage never reads, at their defaults
CoreEnvironments ==
    {cfg \in Environments : /\ cfg.nodeEnv = DefaultEnvironment.nodeEnv
                            /\ cfg.twilioAccountSid = "" /\ cfg.twilioAuthToken = ""}

\* Configurations explored for the webhook route: every Twilio, logging and
\* environment setting; Dialogflow either left unconfigured or fully configured
WebhookEnvironments ==
    {cfg \in Environments : /\ (cfg.twilioAccountSid = "") = (cfg.twilioAuthToken = "")
                            /\ cfg.dialogflowEnabled = (cfg.dialogflowProjectId # "")}

InitEnv(configs) ==
    \E cfg \in configs : env = [r \in Runs |-> IF r = "a" THEN cfg ELSE DefaultEnvironment]

\* The message pipeline of one deployment, called directly
Init == InitEnv(CoreEnvironments) /\ InitRuns({"a"})

Next ==
    \/ Construct("a")
    \/ DirectCall("a")
    \/ DetectIntentSettles("a")
    \/ FetchSettles("a")
    \/ NextRequest("a")

Spec == Init /\ [][Next]_vars

\* The same pipeline when every detectIntent call and every repository call that
\* was issued eventually settles
LiveTexts ==
    {"", "   ", "I need FOOD in an emergency", "How do I register at OPM?", "hello", "xyz",
     Text501}

LiveCall(r) ==
    \E userMessage \in LiveTexts : CallProcessMessage(r, userMessage, "whatsapp:+256700000001")

NextLive ==
    \/ Construct("a")
    \/ LiveCall("a")
    \/ DetectIntentSettles("a")
    \/ FetchSettles("a")
    \/ NextRequest("a")

SpecLive ==
    /\ Init
    /\ [][NextLive]_vars
    /\ WF_vars(DetectIntentSettles("a"))
    /\ WF_vars(FetchSettles("a"))

\* The webhook route of one deployment: middleware chain, controller, pipeline
InitWebhook == InitEnv(WebhookEnvironments) /\ InitRuns({"a"})

NextWebhook ==
    \/ Construct("a")
    \/ Receive("a")
    \/ TwilioWebhookValidator("a")
    \/ ValidateTwilioWebhook("a")
    \/ HandleWhatsAppWebhook("a")
    \/ DetectIntentSettles("a")
    \/ FetchSettles("a")
    \/ SendTwiml("a")
    \/ NextRequest("a")

SpecWebhook == InitWebhook /\ [][NextWebhook]_vars

(***************************************************************************)
(* Two deployments given the same message against the same reference data: *)
(* "a" with any Dialogflow configuration, then the reference deployment    *)
(* "b", which has the remote NLU disabled.  The runs share nothing but the *)
(* read-only data, so "b" is replayed after "a" has answered.              *)
(***************************************************************************)
InitPair ==
    /\ \E cfg \in CoreEnvironments :
        /\ cfg.logLevel = DefaultEnvironment.logLevel
        /\ env = [r \in Runs |-> IF r = "a" THEN cfg ELSE [cfg EXCEPT !.dialogflowEnabled = FALSE]]
    /\ InitRuns(Runs)

Turn(r) == r = "a" \/ pc["a"] = "returned"

\* the message already given to the other deployment, if any
SameMessage(r, userMessage, userPhone) ==
    \A o \in Runs \ {r} :
        call[o] # None => call[o][1].text = userMessage /\ call[o][1].phone = userPhone

PairTexts ==
    {"   ", "I need FOOD in an emergency", "How do I register at OPM?", "  I feel sick\n",
     "hello", "xyz", Text501}

PairCall(r) ==
    \E userMessage \in PairTexts, userPhone \in {"whatsapp:+256700000001"} :
        /\ SameMessage(r, userMessage, userPhone)
        /\ CallProcessMessage(r, userMessage, userPhone)

NextPair ==
    \E r \in Runs :
        /\ Turn(r)
        /\ \/ Construct(r)
           \/ PairCall(r)
           \/ DetectIntentSettles(r)
           \/ FetchSettles(r)

SpecPair == InitPair /\ [][NextPair]_vars

(***************************************************************************)
(* TwilioService.validateWebhookSignature (src/services/TwilioService.ts). *)
(***************************************************************************)
Returned(value, logs) == [raised |-> FALSE, value |-> value, logs |-> logs]

\* Variant of validateWebhookSignature without the try / catch around
\* twilio.validateRequest (sensitivity of C8)
validateWebhookSignatureUncaught(cfg, isConfigured, url, body, signature) ==
    LET verdict == validateRequest(cfg.twilioAuthToken, signature[1], url, body)
    IN  IF ~isConfigured THEN Returned(FALSE, {})
        ELSE IF ~IsSome(signature) THEN Returned(FALSE, {})
        ELSE IF verdict = "raise" THEN [raised |-> TRUE, value |-> FALSE, logs |-> {}]
        ELSE Returned(verdict = "valid", {})

validateWebhookSignature(cfg, isConfigured, url, body, signature) ==
    LET verdict == validateRequest(cfg.twilioAuthToken, signature[1], url, body)
    IN  IF ~isConfigured
        THEN Returned(FALSE, AppLogger(cfg, "warn", "Twilio not configured - skipping webhook signature validation"))
        ELSE IF ~IsSome(signature)
        THEN Returned(FALSE, AppLogger(cfg, "warn", "Missing Twilio signature header"))
        ELSE IF verdict = "raise"
        THEN Returned(FALSE, AppLogger(cfg, "error", "Error validating Twilio webhook signature"))
        ELSE IF verdict = "invalid"
        THEN Returned(FALSE, AppLogger(cfg, "warn", "Invalid Twilio webhook signature"))
        ELSE Returned(TRUE, {})

\* new TwilioService()
BuildTwilioService ==
    /\ ~verifier.built
    /\ verifier' = [built |-> TRUE,
                    isConfigured |-> env["a"].twilioAccountSid # "" /\ env["a"].twilioAuthToken # "",
                    last |-> None]
    /\ log' = [log EXCEPT !["a"] = @ \cup
                (IF env["a"].twilioAccountSid # "" /\ env["a"].twilioAuthToken # ""
                 THEN AppLogger(env["a"], "info", "Twilio service initialized successfully")
                 ELSE AppLogger(env["a"], "warn", "Twilio service not configured - missing account SID or auth token"))]
    /\ UNCHANGED <<env, svc, db, pc, req, http, call, frame, fetch, trace, result, keys, rendered>>

VerifierUrls ==
    {GatewayUrl, "http://bot.example.org/webhook/twilio/whatsapp",
     "https://bot example/webhook/twilio/whatsapp"}

VerifierBodies ==
    {[From |-> Some("whatsapp:+256700000001"), Body |-> Some("Where can I eat?")],
     [From |-> Some("whatsapp:+256700000001"), Body |-> Some("hello")]}

VerifierSignatures ==
    {None} \cup {Some(ExpectedSignature(key, url, body)) :
                    key \in {"tok-live", "tok-forged"}, url \in VerifierUrls, body \in VerifierBodies}

ValidateWebhookSignature ==
    /\ verifier.built
    /\ \E url \in VerifierUrls, body \in VerifierBodies, signature \in VerifierSignatures :
        verifier' = [verifier EXCEPT !.last =
            Some([url |-> url, body |-> body, signature |-> signature,
                  outcome |-> validateWebhookSignature(env["a"], verifier.isConfigured, url, body, signature)])]
    /\ UNCHANGED <<env, svc, db, pc, req, http, log, call, frame, fetch, trace, result, keys, rendered>>

VerifierEnvironments ==
    {cfg \in Environments : /\ cfg.nodeEnv = "production"
                            /\ ~cfg.dialogflowEnabled /\ cfg.dialogflowProjectId = ""}

InitVerifier ==
    /\ InitEnv(VerifierEnvironments)
    /\ InitRuns({})
    /\ db = EmptyDb

NextVerifier == BuildTwilioService \/ ValidateWebhookSignature

SpecVerifier == InitVerifier /\ [][NextVerifier]_vars

(***************************************************************************)
(* The keyword path of a deployment without Dialogflow, on texts built     *)
(* from one keyword of each group: every single word and every ordered     *)
(* pair of words of the vocabulary.                                        *)
(***************************************************************************)
KeywordVocabulary == {"opm", "FOOD", "sleep", "doctor", "emergency", "hi", "xyz"}

KeywordTexts ==
    KeywordVocabulary \cup {first \o " " \o second : first \in KeywordVocabulary, second \in KeywordVocabulary}

KeywordCall(r) ==
    \E userMessage \in KeywordTexts : CallProcessMessage(r, userMessage, "whatsapp:+256700000001")

\* Dialogflow left unconfigured: getResponse goes straight to the keyword path
KeywordEnvironments ==
    {cfg \in CoreEnvironments : ~cfg.dialogflowEnabled /\ cfg.dialogflowProjectId = ""}

InitKeywords == InitEnv(KeywordEnvironments) /\ InitRuns({"a"})

NextKeywords ==
    \/ Construct("a")
    \/ KeywordCall("a")
    \/ FetchSettles("a")
    \/ NextRequest("a")

SpecKeywords == InitKeywords /\ [][NextKeywords]_vars

(***************************************************************************)
(* MessageService.generateSessionId on its own: a process, in any          *)
(* configuration, derives the keys of a few senders one after the other.   *)
(***************************************************************************)
MaxDerivations == 3

\* channel addresses of the admitted form (two of them differing in the last
\* digit only, the shortest and the longest), other caller-supplied ids, and
\* the id that is the key of itself
SessionSenders ==
    {"whatsapp:+256700000001", "whatsapp:+256700000002", "whatsapp:+1", "whatsapp:+12",
     "whatsapp:+123456789012345", "ab", "", "user-dXNlci1kWE5sY2kx"}

DeriveSessionKey ==
    /\ Len(keys) < MaxDerivations
    /\ \E userPhone \in SessionSenders :
        keys' = Append(keys, [phone |-> userPhone, key |-> generateSessionId(userPhone)])
    /\ UNCHANGED <<env, svc, db, pc, req, http, log, call, frame, fetch, trace, result, verifier,
                   rendered>>

InitSession == InitEnv(CoreEnvironments) /\ InitRuns({}) /\ db = EmptyDb

NextSession == DeriveSessionKey

SpecSession == InitSession /\ [][NextSession]_vars

(***************************************************************************)
(* One process serving two processMessage calls at once: the calls share   *)
(* the configuration, the DialogflowService singleton and the reference    *)
(* data, and their awaits settle in any order.                             *)
(***************************************************************************)
ConcurrentEnvironments ==
    {cfg \in CoreEnvironments : /\ cfg.logLevel = DefaultEnvironment.logLevel
                                /\ cfg.dialogflowEnabled = (cfg.dialogflowProjectId # "")}

InitConcurrent ==
    /\ \E cfg \in ConcurrentEnvironments : env = [r \in Runs |-> cfg]
    /\ InitRuns(Runs)

\* index.ts start-up: one createDialogflowService for every later call
StartApplication ==
    /\ \A r \in Runs : pc[r] = "boot"
    /\ \E clientOk \in BOOLEAN :
        LET cfg == env["a"]
            attempted == cfg.dialogflowEnabled /\ cfg.dialogflowProjectId # ""
            started == IF ~attempted
                       THEN AppLogger(cfg, "warn", "Dialogflow is disabled. Using built-in response logic.")
                       ELSE IF clientOk
                       THEN AppLogger(cfg, "info", "Dialogflow service initialized successfully")
                       ELSE AppLogger(cfg, "error", "Failed to initialize Dialogflow client")
        IN  /\ svc' = [r \in Runs |-> Some(NewDialogflowService(cfg, clientOk))]
            /\ log' = [r \in Runs |-> log[r] \cup started]
    /\ pc' = [r \in Runs |-> "idle"]
    /\ UNCHANGED <<env, db, req, http, call, frame, fetch, trace, result, verifier, keys, rendered>>

ConcurrentTexts == {"I need FOOD in an emergency", "  I feel sick\n", "xyz"}

ConcurrentCall(r) ==
    \E userMessage \in ConcurrentTexts : CallProcessMessage(r, userMessage, "whatsapp:+256700000001")

ConcurrentNluOutcomes ==
    {o \in NluOutcomes :
        \/ o.kind = "raise"
        \/ /\ o.kind = "result"
           /\ \/ o.intent = Some(INTENT_NAMES.FIND_HEALTHCARE) /\ o.fulfillmentText = None
              \/ o.intent = None /\ o.fulfillmentText = Some("You can ask me about food or shelter.")}

NextConcurrent ==
    \/ StartApplication
    \/ \E r \in Runs :
        \/ ConcurrentCall(r)
        \/ DetectIntentSettlesWith(r, ConcurrentNluOutcomes)
        \/ FetchSettles(r)

SpecConcurrent == InitConcurrent /\ [][NextConcurrent]_vars

(***************************************************************************)
(* The compositions on their own: an intent handler whose repository calls *)
(* are all fulfilled, and the formatters of ResponseFormatter applied to   *)
(* row lists of any content and order.                                     *)
(***************************************************************************)
MaxContacts == 3
MaxServices == 2
MaxSteps == 3
MaxDocuments == 2

\* the lists of at most n distinct rows of a pool, in every order
ListsOf(pool, n) ==
    UNION {{rows \in [1..k -> pool] : \A i, j \in 1..k : i # j => rows[i] # rows[j]} : k \in 0..n}

\* contacts of every type; urgent by flag and type, by flag only, by type only
ContactPool ==
    {[entity |-> "Police", type |-> "Emergency", phone |-> "999", email |-> "",
      description |-> "24h line", is_urgent |-> TRUE],
     [entity |-> "Fraud Line", type |-> "Fraud", phone |-> "0800", email |-> "",
      description |-> "", is_urgent |-> TRUE],
     [entity |-> "Red Cross", type |-> "Emergency", phone |-> "", email |-> "rc@example.org",
      description |-> "First aid", is_urgent |-> FALSE],
     [entity |-> "OPM Desk", type |-> "General", phone |-> "", email |-> "opm@example.org",
      description |-> "", is_urgent |-> FALSE],
     [entity |-> "Mbarara Referral", type |-> "Hospital", phone |-> "+256700000222", email |-> "",
      description |-> "Casualty ward", is_urgent |-> FALSE]}

\* services of every category; one Shelter service run by an organization named WFP
ServicePool ==
    {[category |-> "Food", organization |-> "WFP Mbarara", services |-> "Monthly rations",
      location |-> "Nakivale", contact_phone |-> ""],
     [category |-> "Food", organization |-> "Caritas", services |-> "Hot meals",
      location |-> "", contact_phone |-> ""],
     [category |-> "Health", organization |-> "Mbarara Clinic", services |-> "Primary care",
      location |-> "", contact_phone |-> "+256700000111"],
     [category |-> "Shelter", organization |-> "WFP Transit Centre", services |-> "Settlement plots",
      location |-> "Oruchinga", contact_phone |-> ""]}

StepPool ==
    {[step_number |-> 1, title |-> "Report", description |-> "Go to the OPM desk"],
     [step_number |-> 2, title |-> "Interview", description |-> "Status interview"],
     [step_number |-> 10, title |-> "Card", description |-> "Collect the family card"]}

DocumentPool ==
    {[document_name |-> "Passport", is_essential |-> TRUE],
     [document_name |-> "School card", is_essential |-> FALSE]}

FormatSnapshots ==
    {[EmptyDb EXCEPT !.contacts = contacts, !.services = services] :
        contacts \in ListsOf(ContactPool, MaxContacts),
        services \in {<<>>, SampleDb.services}}
    \cup {[EmptyDb EXCEPT !.services = services] : services \in ListsOf(ServicePool, MaxServices)}
    \cup {[EmptyDb EXCEPT !.steps = steps, !.documents = documents] :
              steps \in ListsOf(StepPool, MaxSteps),
              documents \in ListsOf(DocumentPool, MaxDocuments)}

Handlers == {"Registration", "Food", "Shelter", "Healthcare", "EmergencyContacts"}

Rendering(op, response) == Some([op |-> op, response |-> response])

Unrendered == <<env, svc, db, pc, req, http, log, call, frame, fetch, trace, result, verifier, keys>>

\* handle<X>Intent with every repository call fulfilled
ComposeIntent ==
    /\ \E handler \in Handlers : rendered' = Rendering(handler, HandlerResponse(handler, db))
    /\ UNCHANGED Unrendered

\* ResponseFormatter.formatEmergencyContacts(contacts)
FormatEmergencyContacts ==
    /\ rendered' = Rendering("formatEmergencyContacts", formatEmergencyContacts(db.contacts))
    /\ UNCHANGED Unrendered

\* ResponseFormatter.formatRegistrationResponse(steps, documents, contacts)
FormatRegistrationResponse ==
    /\ rendered' = Rendering("formatRegistrationResponse",
                             formatRegistrationResponse(db.steps, db.documents, db.contacts))
    /\ UNCHANGED Unrendered

InitFormat ==
    /\ env = [r \in Runs |-> DefaultEnvironment]
    /\ db \in FormatSnapshots
    /\ svc = [r \in Runs |-> None]
    /\ pc = [r \in Runs |-> "parked"]
    /\ req = [r \in Runs |-> None]
    /\ http = [r \in Runs |-> NoHttp]
    /\ log = [r \in Runs |-> {}]
    /\ call = [r \in Runs |-> None]
    /\ frame = [r \in Runs |-> NoFrame]
    /\ fetch = [r \in Runs |-> NoFetch]
    /\ trace = [r \in Runs |-> <<>>]
    /\ result = [r \in Runs |-> NoResult]
    /\ verifier = NoVerifier
    /\ keys = <<>>
    /\ rendered = None

NextFormat ==
    \/ ComposeIntent
    \/ FormatEmergencyContacts
    \/ FormatRegistrationResponse

SpecFormat == InitFormat /\ [][NextFormat]_vars

(***************************************************************************)
(* Properties.                                                             *)
(***************************************************************************)
Called(r) == IsSome(call[r])
TextOf(r) == call[r][1].text
IsBlank(text) == Len(Trim(text)) = 0
\* processMessage has come back to its caller
Answered(r) == Called(r) /\ pc[r] \in {"returned", "done"}
MessageOf(response) == response[1].message
EventsOf(r, op) == SelectSeq(trace[r], LAMBDA e : e.op = op)

\* C1: for every sender and every text that is non-blank after trimming and at
\* most 500 characters long, processMessage never raises to its caller and
\* returns a BotResponse with a non-empty message, whatever detectIntent and
\* the repository calls do.
C1_ProcessMessageAlwaysAnswers ==
    \A r \in Runs :
        (Called(r) /\ ~IsBlank(TextOf(r)) /\ Len(TextOf(r)) <= 500) =>
            /\ result[r].pm # "raised"
            /\ Answered(r) =>
                /\ result[r].pm = "returned"
                /\ IsSome(result[r].pmResponse)
                /\ Len(MessageOf(result[r].pmResponse)) > 0

\* a valid text whose resolution raised out of getResponse and was still answered
C1_Witness ==
    \E r \in Runs :
        /\ Answered(r) /\ ~IsBlank(TextOf(r)) /\ Len(TextOf(r)) <= 500
        /\ result[r].gr = "raised"
        /\ result[r].pmResponse = Some(ProcessingErrorResponse)

NluFailed(r) == IsSome(result[r].nlu) /\ result[r].nlu[1].kind # "result"

\* every repository query answered the same way each time it was asked, in both runs
FixedSnapshot ==
    \A x \in result["a"].answers \cup result["b"].answers :
        <<x[1], ~x[2]>> \notin result["a"].answers \cup result["b"].answers

Produced(r) ==
    [gr |-> result[r].gr, grResponse |-> result[r].grResponse, pmResponse |-> result[r].pmResponse]

PairAnswered ==
    /\ Answered("a") /\ Answered("b")
    /\ TextOf("a") = TextOf("b")
    /\ svc["a"][1].isEnabled /\ NluFailed("a")
    /\ ~svc["b"][1].isEnabled
    /\ FixedSnapshot

\* C2: for every text and every fixed reference-data snapshot, the response
\* produced when Dialogflow is enabled but its call fails is identical to the
\* response produced for the same text with Dialogflow disabled.
C2_NluFailureEqualsDisabled == PairAnswered => Produced("a") = Produced("b")

\* both deployments ran a keyword handler on the snapshot and rendered its rows
C2_Witness ==
    /\ PairAnswered
    /\ result["a"].nlu[1].kind = "raise"
    /\ Len(EventsOf("a", "handler")) = 1
    /\ result["a"].gr = "returned"
    /\ Len(db.services) > 0

\* a repository call of a Path B handler was rejected while serving the message
PathBFetchFailed(r) ==
    /\ \E i \in DOMAIN trace[r] : trace[r][i].op = "handler" /\ trace[r][i].path = "B"
    /\ \E x \in result[r].answers : ~x[2]

\* C3: Path B never raises: when a repository call inside a Path B handler is
\* rejected, getResponse does not propagate the error to its caller.
C3_PathBNeverRaises ==
    \A r \in Runs : PathBFetchFailed(r) => result[r].gr # "raised"

\* C4: for every message that passes validation exactly one intent is resolved
\* and at most one handler is run, never a second time, whatever detectIntent
\* and the repository calls do.
C4_ResolvedExactlyOnce ==
    \A r \in Runs :
        /\ Len(EventsOf(r, "resolve")) <= 1
        /\ Len(EventsOf(r, "handler")) <= 1
        /\ (Answered(r) /\ result[r].gr # "notcalled") => Len(EventsOf(r, "resolve")) = 1

ResolverNeverInvoked(r) == trace[r] = <<>> /\ result[r].gr = "notcalled" /\ result[r].nlu = None

\* C5 as stated: blank text gets the instructional message, text longer than 500
\* characters gets the "too long" message, and in both cases getResponse,
\* detectIntent and the keyword path are never invoked.
C5_AsStated ==
    \A r \in Runs :
        Answered(r) =>
            /\ IsBlank(TextOf(r)) =>
                result[r].pmResponse = Some(InstructionResponse) /\ ResolverNeverInvoked(r)
            /\ Len(TextOf(r)) > 500 =>
                result[r].pmResponse = Some(TooLongResponse) /\ ResolverNeverInvoked(r)

\* C5: blank text (of any length) gets the instructional message, non-blank text
\* longer than 500 characters gets the "too long" message, and in both cases
\* getResponse, detectIntent and the keyword path are never invoked.
C5_ValidationPrecedesResolution ==
    \A r \in Runs :
        Answered(r) =>
            /\ IsBlank(TextOf(r)) =>
                result[r].pmResponse = Some(InstructionResponse) /\ ResolverNeverInvoked(r)
            /\ (Len(TextOf(r)) > 500 /\ ~IsBlank(TextOf(r))) =>
                result[r].pmResponse = Some(TooLongResponse) /\ ResolverNeverInvoked(r)

\* a non-blank text of more than 500 characters was answered "too long"
C5_Witness ==
    \E r \in Runs :
        /\ Answered(r) /\ Len(TextOf(r)) > 500 /\ ~IsBlank(TextOf(r))
        /\ result[r].pmResponse = Some(TooLongResponse)
        /\ ResolverNeverInvoked(r)

\* the request of run r has been through twilioWebhookValidator
PastValidator(r) == IsSome(req[r]) /\ pc[r] # "twilioWebhookValidator"

\* a later stage of the route has run for the request
PipelineRan(r) == http[r].next # <<>> \/ Called(r)

\* the header equals the signature of the reconstructed URL and the body
\* parameters under the configured auth token
SignatureMatched(r) ==
    /\ IsSome(req[r][1].signature)
    /\ env[r].twilioAuthToken # ""
    /\ req[r][1].signature[1] =
           ExpectedSignature(env[r].twilioAuthToken, ReconstructedUrl(req[r][1]), BodyParams(req[r][1]))

Rejected(r) ==
    /\ pc[r] = "done"
    /\ ~PipelineRan(r)
    /\ Len(http[r].sent) = 1
    /\ http[r].sent[1].status \in {403, 500}

\* C6: in production the later stages (payload validation, handleWhatsAppWebhook,
\* processMessage) run for a request only if its signature header matched the
\* signature recomputed from the reconstructed URL, the body parameters and the
\* auth token; a missing header, a missing token, a mismatch or an error
\* during verification ends in a rejection sent before any later stage runs.
C6_ProductionRequiresSignature ==
    \A r \in Runs :
        (isProduction(env[r]) /\ PastValidator(r)) =>
            /\ PipelineRan(r) => SignatureMatched(r)
            /\ (~SignatureMatched(r) \/ UrlMalformed(ReconstructedUrl(req[r][1]))) => Rejected(r)

\* a correctly signed production request went through processMessage
C6_Witness ==
    \E r \in Runs :
        /\ isProduction(env[r]) /\ PastValidator(r)
        /\ SignatureMatched(r)
        /\ Answered(r)

BypassMessage == "Skipping Twilio signature validation in development mode"

\* C7: outside production every request is passed to the next stage whatever its
\* signature header and the auth token, and each bypass leaves a log record.
C7_BypassPassesAndIsLogged ==
    \A r \in Runs :
        (~isProduction(env[r]) /\ PastValidator(r)) =>
            /\ http[r].next # <<>> /\ http[r].next[1] = "twilioWebhookValidator"
            /\ \E record \in log[r] : record[2] = BypassMessage

VerifierCalled == IsSome(verifier.last)
LastCall == verifier.last[1]

\* C8: validateWebhookSignature never throws, and returns false when the
\* signature header is missing, when the service is not configured (account
\* SID or auth token missing), or when twilio.validateRequest raises.
C8_VerifierReturnsFalse ==
    VerifierCalled =>
        /\ ~LastCall.outcome.raised
        /\ (\/ ~IsSome(LastCall.signature)
            \/ env["a"].twilioAuthToken = ""
            \/ env["a"].twilioAccountSid = ""
            \/ UrlMalformed(LastCall.url)) => LastCall.outcome.value = FALSE

\* a configured service was given a signature and a malformed URL
C8_Witness ==
    /\ VerifierCalled
    /\ verifier.isConfigured /\ IsSome(LastCall.signature) /\ UrlMalformed(LastCall.url)
    /\ LastCall.outcome = Returned(FALSE, {<<"error", "Error validating Twilio webhook signature">>})

\* the keyword groups in the order they are to be tested
KeywordGroups ==
    <<[intent |-> "Registration", keywords |-> {"register", "registration", "opm"}],
      [intent |-> "Food", keywords |-> {"food", "hungry", "eat"}],
      [intent |-> "Shelter", keywords |-> {"shelter", "place to stay", "sleep"}],
      [intent |-> "Healthcare", keywords |-> {"health", "hospital", "doctor", "sick"}],
      [intent |-> "EmergencyContacts", keywords |-> {"emergency", "help", "contact"}],
      [intent |-> "Welcome", keywords |-> {"hello", "hi", "start"}]>>

\* group i has a keyword contained in the (lower-cased, trimmed) text
GroupMatches(i, lowered) ==
    \E kw \in KeywordGroups[i].keywords : Includes(lowered, kw)

FirstMatchingGroup(lowered) ==
    LET hits == {i \in DOMAIN KeywordGroups : GroupMatches(i, lowered)}
    IN  IF hits = {} THEN "Fallback" ELSE KeywordGroups[SetMin(hits)].intent

PathBResolutions(r) == SelectSeq(trace[r], LAMBDA e : e.op = "resolve" /\ e.path = "B")

\* C9: Path B resolves a text to the first of the groups Registration, Food,
\* Shelter, Healthcare, EmergencyContacts, Welcome that has a keyword contained
\* in the lower-cased trimmed text, and to Fallback when no group has one; a
\* text containing both "food" and "emergency" and no Registration keyword
\* resolves to Food.
C9_FirstKeywordGroupWins ==
    \A r \in Runs :
        PathBResolutions(r) # <<>> =>
            LET lowered == Trim(ToLowerCase(TextOf(r)))
                expected == FirstMatchingGroup(lowered)
                foodAndEmergency ==
                    Includes(lowered, "food") /\ Includes(lowered, "emergency") /\ ~GroupMatches(1, lowered)
            IN  \A i \in DOMAIN PathBResolutions(r) :
                    /\ PathBResolutions(r)[i].arg = expected
                    /\ foodAndEmergency => PathBResolutions(r)[i].arg = "Food"

\* a text with both "food" and "emergency" was resolved by the keyword path
C9_Witness ==
    \E r \in Runs :
        /\ Called(r)
        /\ Len(PathBResolutions(r)) > 0
        /\ PathBResolutions(r)[1].arg = "Food"
        /\ Includes(ToLowerCase(TextOf(r)), "food") /\ Includes(ToLowerCase(TextOf(r)), "emergency")

OverrideSet == {"find_registration", "find_food", "find_shelter", "find_healthcare", "find_emergency_contacts"}

\* the local handler an override intent is to be answered by
MatchingHandler(intent) ==
    CASE intent = "find_registration" -> "Registration"
      [] intent = "find_food" -> "Food"
      [] intent = "find_shelter" -> "Shelter"
      [] intent = "find_healthcare" -> "Healthcare"
      [] intent = "find_emergency_contacts" -> "EmergencyContacts"

\* detectIntent of run r returned a query result, and the message was answered
PathAAnswered(r) == Answered(r) /\ IsSome(result[r].nlu) /\ result[r].nlu[1].kind = "result"

\* C10: on Path A an intent name of the override set is answered by the
\* matching local handler (its rendering of the data, or the apology when one
\* of its repository calls fails), whatever fulfillmentText was returned; any
\* other outcome is answered with the fulfillmentText verbatim, and with the
\* generic apology when the fulfillmentText is empty or absent.
C10_OverrideOrFulfillment ==
    \A r \in Runs :
        PathAAnswered(r) =>
            LET nlu == result[r].nlu[1]
                response == result[r].pmResponse[1]
            IN  IF IsSome(nlu.intent) /\ nlu.intent[1] \in OverrideSet
                THEN /\ EventsOf(r, "handler") = <<Event("handler", "A", MatchingHandler(nlu.intent[1]))>>
                     /\ response = IF \E x \in result[r].answers : ~x[2]
                                   THEN formatErrorResponse(None)
                                   ELSE HandlerResponse(MatchingHandler(nlu.intent[1]), db)
                ELSE /\ EventsOf(r, "handler") = <<>>
                     /\ response.message =
                            IF IsSome(nlu.fulfillmentText) /\ nlu.fulfillmentText[1] # ""
                            THEN nlu.fulfillmentText[1]
                            ELSE "I apologize, but I could not process your request."

\* an override intent came with a fulfillment text and was answered from the data
C10_Witness ==
    \E r \in Runs :
        /\ PathAAnswered(r)
        /\ result[r].nlu[1].intent = Some("find_food")
        /\ Truthy(result[r].nlu[1].fulfillmentText)
        /\ Len(db.services) > 0
        /\ result[r].pmResponse = Some(HandlerResponse("Food", db))
        /\ MessageOf(result[r].pmResponse) # result[r].nlu[1].fulfillmentText[1]

\* getResponse has been entered for the message of run r
ResolverEntered(r) == Called(r) /\ result[r].gr # "notcalled"

\* C11: for a message that reaches getResponse, detectIntent is called if and
\* only if DIALOGFLOW_ENABLED is set, a project id is configured and the
\* SessionsClient was constructed; otherwise only the keyword path runs.
C11_NluCalledIffConfigured ==
    \A r \in Runs :
        ResolverEntered(r) =>
            LET configured == /\ env[r].dialogflowEnabled
                              /\ env[r].dialogflowProjectId # ""
                              /\ svc[r][1].sessionsClient
            IN  /\ (EventsOf(r, "detectIntent") # <<>>) <=> configured
                /\ ~configured =>
                      /\ result[r].nlu = None
                      /\ \A i \in DOMAIN trace[r] : trace[r][i].path # "A"
                      /\ PathBResolutions(r) # <<>>

\* the integration was enabled with a project id, the client could not be built,
\* and the message was answered by the keyword path alone
C11_Witness ==
    \E r \in Runs :
        /\ Answered(r) /\ ResolverEntered(r)
        /\ env[r].dialogflowEnabled /\ env[r].dialogflowProjectId # ""
        /\ ~svc[r][1].sessionsClient
        /\ EventsOf(r, "detectIntent") = <<>>
        /\ PathBResolutions(r) # <<>>

\* C12: when Path A raises, the keyword path is run exactly once within the same
\* getResponse call and detectIntent is not called again: detectIntent is
\* invoked at most once per message.
C12_OneShotFallback ==
    \A r \in Runs :
        /\ Len(EventsOf(r, "detectIntent")) <= 1
        /\ Len(EventsOf(r, "getResponse")) <= 1
        /\ NluFailed(r) =>
              /\ Len(PathBResolutions(r)) = 1
              /\ Len(EventsOf(r, "handler")) <= 1
              /\ Len(EventsOf(r, "detectIntent")) = 1

\* detectIntent rejected, the keyword handler's query was rejected as well, and
\* the message was answered without a second call of either
C12_Witness ==
    \E r \in Runs :
        /\ Answered(r) /\ NluFailed(r)
        /\ result[r].nlu[1].kind = "raise"
        /\ \E x \in result[r].answers : ~x[2]
        /\ Len(PathBResolutions(r)) = 1
        /\ Len(EventsOf(r, "detectIntent")) = 1

GenericApology == formatErrorResponse(None)

\* every repository call made for the message of run r was rejected
EveryFetchFailed(r) == result[r].answers # {} /\ \A x \in result[r].answers : ~x[2]

\* C13: every failure of a repository call inside an intent branch is answered
\* with the one generic apology text, whether the branch was reached through
\* Path A or through Path B and whichever intent it was.
C13_OneApologyText ==
    \A r \in Runs :
        (Answered(r) /\ EveryFetchFailed(r)) =>
            MessageOf(result[r].pmResponse) = GenericApology.message

\* the handlers that issue several repository calls at once
ConcurrentHandlers == {"Registration", "Healthcare"}

ApologyResponses == {GenericApology, ProcessingErrorResponse}

StartsWith(s, prefix) == Len(s) >= Len(prefix) /\ SubSeq(s, 1, Len(prefix)) = prefix

Deterministic == \A i, j \in DOMAIN keys : keys[i].phone = keys[j].phone => keys[i].key = keys[j].key

C16_DistinctSendersDistinctKeys ==
    \A i, j \in DOMAIN keys :
        (/\ PhoneRegexTest(keys[i].phone)
         /\ PhoneRegexTest(keys[j].phone)
         /\ keys[i].phone # keys[j].phone) => keys[i].key # keys[j].key

\* the ASCII character of a byte: the inverse of ByteOf
AsciiChars == DigitChars \o UpperLetters \o LowerLetters \o " +-.:@_"

CharOf(b) ==
    LET hit == {i \in 1..Len(AsciiChars) : ByteOf(CharAt(AsciiChars, i)) = b}
    IN  IF hit = {} THEN "?" ELSE CharAt(AsciiChars, SetMin(hit))

Sextet(c) == IF IndexIn(Base64Alphabet, c) > 0 THEN IndexIn(Base64Alphabet, c) - 1 ELSE 0

RECURSIVE DecodeBase64From(_, _)
\* what Buffer.from(s, 'base64').toString() gives anyone who holds the key
DecodeBase64From(s, i) ==
    LET left == Len(s) - i + 1
        c(k) == IF k <= left THEN CharAt(s, i + k - 1) ELSE "="
        n == Sextet(c(1)) * 262144 + Sextet(c(2)) * 4096 + Sextet(c(3)) * 64 + Sextet(c(4))
        bytes == IF c(2) = "=" THEN 0 ELSE IF c(3) = "=" THEN 1 ELSE IF c(4) = "=" THEN 2 ELSE 3
        text == CharOf(n \div 65536) \o CharOf((n \div 256) % 256) \o CharOf(n % 256)
    IN  IF left <= 0 THEN ""
        ELSE SliceHead(text, bytes) \o (IF bytes = 3 THEN DecodeBase64From(s, i + 4) ELSE "")

DecodeKey(key) == DecodeBase64From(SubSeq(key, Len("user-") + 1, Len(key)), 1)

\* C17: decoding a session key gives back neither the sender id nor any
\* leading part of it.
C17_KeyRevealsNothing ==
    \A i \in DOMAIN keys :
        LET decoded == DecodeKey(keys[i].key)
        IN  ~(Len(decoded) > 0 /\ StartsWith(keys[i].phone, decoded))

\* the answer of the keyword path to `text` when `failures` awaits of its handler
\* were rejected; entered from the try block of getResponse a rejected handler is
\* run once more, entered from its catch block it is not
KeywordAnswer(text, block, failures, data) ==
    LET intent == BuiltInIntent(text)
    IN  IF intent = "Welcome" THEN formatWelcomeResponse
        ELSE IF intent = "Fallback" THEN BuiltInFallbackResponse
        ELSE IF failures >= (IF block = "try" THEN 2 ELSE 1) THEN ProcessingErrorResponse
        ELSE HandlerResponse(intent, data)

\* what processMessage returns for `text` when it runs alone in a process with
\* `service`, the remote NLU settles with `nlu` (if called), `failures` awaits of
\* handlers are rejected and the reference data are `data`
AloneResponse(text, service, nlu, failures, data) ==
    IF IsBlank(text) THEN InstructionResponse
    ELSE IF Len(text) > MaxMessageLength THEN TooLongResponse
    ELSE IF ~service.isEnabled THEN KeywordAnswer(text, "try", failures, data)
    ELSE IF nlu = None \/ nlu[1].kind # "result" THEN KeywordAnswer(text, "catch", failures, data)
    ELSE IF Truthy(nlu[1].intent) /\ shouldUseCustomLogic(nlu[1].intent[1])
    THEN IF failures > 0 THEN formatErrorResponse(None)
         ELSE HandlerResponse(CustomHandler(nlu[1].intent[1]), data)
    ELSE Reply(IF Truthy(nlu[1].fulfillmentText) THEN nlu[1].fulfillmentText[1]
               ELSE NoFulfillmentMessage, None)

\* C19: whatever the interleaving of two processMessage calls served by one
\* process, each call returns the BotResponse determined by its own message and
\* its own collaborator results alone, and never raises.
C19_CallsAreIndependent ==
    \A r \in Runs :
        Answered(r) =>
            /\ result[r].pm = "returned"
            /\ result[r].pmResponse =
                   Some(AloneResponse(TextOf(r), svc[r][1], result[r].nlu, result[r].failures, db))

\* both calls were in flight together on different messages, their awaits settled
\* differently, and both have answered
C19_Witness ==
    /\ Answered("a") /\ Answered("b")
    /\ TextOf("a") = "I need FOOD in an emergency" /\ TextOf("b") = "  I feel sick\n"
    /\ result["a"].failures = 0 /\ result["b"].failures > 0
    /\ result["a"].answers # {} /\ result["b"].answers # {}
    /\ result["a"].pmResponse # result["b"].pmResponse

\* the remote NLU or a repository call failed while run r was served
FailureOccurred(r) ==
    \/ result[r].nlu # None /\ result[r].nlu[1].kind # "result"
    \/ result[r].failures > 0

\* the two calls got the same message and the same collaborator results, except
\* for what the errors raised say
SameButErrorContent(a, b) ==
    /\ Answered(a) /\ Answered(b)
    /\ TextOf(a) = TextOf(b)
    /\ (result[a].nlu = None) = (result[b].nlu = None)
    /\ result[a].nlu # None =>
           /\ result[a].nlu[1].kind = result[b].nlu[1].kind
           /\ result[a].nlu[1].intent = result[b].nlu[1].intent
           /\ result[a].nlu[1].fulfillmentText = result[b].nlu[1].fulfillmentText
    /\ result[a].answers = result[b].answers
    /\ result[a].failures = result[b].failures

ErrorBlind ==
    \A a, b \in Runs : SameButErrorContent(a, b) => result[a].pmResponse = result[b].pmResponse

\* the responses that render no reference data
StaticResponses ==
    {InstructionResponse, TooLongResponse, ProcessingErrorResponse, BuiltInFallbackResponse,
     CustomDefaultResponse, formatWelcomeResponse, formatErrorResponse(None),
     Reply(NoFulfillmentMessage, None)}
    \cup {HandlerResponse(h, EmptyDb) :
              h \in {"Registration", "Food", "Shelter", "Healthcare", "EmergencyContacts"}}

\* what errors say about themselves
FailureTexts == ErrorDetails \cup {"Database error", "No response from Dialogflow"}

\* C18 as stated: executions that differ only in the content of the errors
\* raised return identical BotResponses, each of them a fixed static text.
C18_AsStated ==
    /\ ErrorBlind
    /\ \A r \in Runs :
        Answered(r) /\ FailureOccurred(r) => result[r].pmResponse[1] \in StaticResponses

\* C18: executions that differ only in the content of the errors raised return
\* identical BotResponses that contain nothing of what the errors say: one of the
\* two fixed apologies, or the ordinary answer of the keyword path to the message.
C18_NoFailureDetail ==
    /\ ErrorBlind
    /\ \A r \in Runs :
        Answered(r) /\ FailureOccurred(r) =>
            /\ result[r].pmResponse[1] \in
                   {formatErrorResponse(None), ProcessingErrorResponse,
                    KeywordAnswer(TextOf(r), "try", 0, db)}
            /\ \A said \in FailureTexts : ~Includes(result[r].pmResponse[1].message, said)

\* two calls on the same message whose NLU call raised errors of different content
\* and whose handler then failed, answered alike
C18_Witness ==
    /\ SameButErrorContent("a", "b")
    /\ result["a"].nlu # None /\ result["a"].nlu[1].kind = "raise"
    /\ result["a"].nlu[1].detail # result["b"].nlu[1].detail
    /\ result["a"].failures > 0
    /\ result["a"].pmResponse = Some(ProcessingErrorResponse)

\* processMessage has returned a BotResponse with a text to its caller
Completed(r) ==
    /\ Answered(r)
    /\ result[r].pm = "returned"
    /\ IsSome(result[r].pmResponse)
    /\ Len(result[r].pmResponse[1].message) > 0

\* C20: if every detectIntent call and every repository call eventually settles,
\* every processMessage call eventually returns a BotResponse, whichever path
\* the message takes.
C20_EveryCallCompletes == Called("a") ~> Completed("a")

\* a call that waited for the remote NLU, fell back to the keyword path when it
\* raised, waited for a repository call that failed, and completed
C20_Witness ==
    /\ Completed("a")
    /\ result["a"].nlu # None /\ result["a"].nlu[1].kind = "raise"
    /\ result["a"].failures > 0
    /\ Len(EventsOf("a", "handler")) > 0

\* the composition last made was `op`
Rendered(op) == IsSome(rendered) /\ rendered[1].op = op

\* C21: for a given intent the quick replies of a successful composition are the
\* same ordered list whatever the reference data hold.
C21_FixedQuickReplies ==
    \A handler \in Handlers :
        Rendered(handler) =>
            rendered[1].response.quickReplies = HandlerResponse(handler, EmptyDb).quickReplies

RowsOf(rows) == {rows[i] : i \in DOMAIN rows}

RenderedMessage == rendered[1].response.message

\* C22: the Healthcare response names every contact of type Emergency or
\* Hospital and every Health-category service that the reference data hold.
C22_HealthcareListsAll ==
    Rendered("Healthcare") =>
        /\ \A contact \in RowsOf(db.contacts) :
            contact.type \in {"Emergency", "Hospital"} => Includes(RenderedMessage, contact.entity)
        /\ \A service \in RowsOf(db.services) :
            service.category = "Health" => Includes(RenderedMessage, service.organization)

ServicesOf(category) == {service \in RowsOf(db.services) : service.category = category}

\* C23: the Food and the Shelter response is the guidance message naming OPM and
\* lists no service when the reference data hold no service of that category,
\* whatever other services they hold, and lists every service of the category
\* otherwise.
C23_DegradeToGuidance ==
    \A category \in {"Food", "Shelter"} :
        Rendered(category) =>
            IF ServicesOf(category) = {}
            THEN /\ rendered[1].response = HandlerResponse(category, EmptyDb)
                 /\ Includes(RenderedMessage, "OPM")
                 /\ \A service \in RowsOf(db.services) :
                        ~Includes(RenderedMessage, service.organization)
            ELSE /\ \A service \in ServicesOf(category) :
                        Includes(RenderedMessage, serviceLine(service))
                 /\ \A service \in RowsOf(db.services) \ ServicesOf(category) :
                        ~Includes(RenderedMessage, service.organization)

\* the Food response when the only services held are of other categories, one of
\* them run by an organization named WFP
C23_Witness ==
    /\ Rendered("Food")
    /\ ServicesOf("Food") = {}
    /\ \E service \in ServicesOf("Shelter") : Includes(service.organization, "WFP")
    /\ Includes(RenderedMessage, "registered with OPM")

\* where `part` occurs in s
Occurrences(s, part) == {i \in 1..(Len(s) - Len(part) + 1) : SubSeq(s, i, i + Len(part) - 1) = part}

\* the first occurrence; past the end of s when there is none
IndexOf(s, part) == IF Occurrences(s, part) = {} THEN Len(s) + 1 ELSE SetMin(Occurrences(s, part))

IsUrgentContact(contact) == contact.is_urgent \/ contact.type = "Emergency"

\* C24: in the message of formatEmergencyContacts every urgent contact (flagged
\* urgent or of type Emergency) comes before every other contact, whatever the
\* list and its order.
C24_UrgentBeforeGeneral ==
    Rendered("formatEmergencyContacts") =>
        \A urgent, general \in RowsOf(db.contacts) :
            IsUrgentContact(urgent) /\ ~IsUrgentContact(general) =>
                /\ Occurrences(RenderedMessage, emergencyLine(urgent)) # {}
                /\ Occurrences(RenderedMessage, emergencyLine(general)) # {}
                /\ IndexOf(RenderedMessage, emergencyLine(urgent))
                       < IndexOf(RenderedMessage, emergencyLine(general))

\* a list that gives a general contact first and then contacts urgent by type only
\* and by flag only
C24_Witness ==
    /\ Rendered("formatEmergencyContacts")
    /\ Len(db.contacts) = 3
    /\ ~IsUrgentContact(db.contacts[1])
    /\ db.contacts[2].type = "Emergency" /\ ~db.contacts[2].is_urgent
    /\ db.contacts[3].is_urgent /\ db.contacts[3].type # "Emergency"
    /\ IndexOf(RenderedMessage, emergencyLine(db.contacts[3]))
           < IndexOf(RenderedMessage, emergencyLine(db.contacts[1]))

OtherHeading == "**OTHER IMPORTANT CONTACTS:**"

\* C25: formatEmergencyContacts renders every contact it is given exactly once:
\* the urgent ones above the heading of the other contacts, the others below it,
\* and nothing else.
C25_ContactsPartitioned ==
    Rendered("formatEmergencyContacts") =>
        /\ \A contact \in RowsOf(db.contacts) :
            /\ Cardinality(Occurrences(RenderedMessage, emergencyLine(contact))) = 1
            /\ IsUrgentContact(contact) <=>
                   IndexOf(RenderedMessage, emergencyLine(contact))
                       < IndexOf(RenderedMessage, OtherHeading)
        /\ Cardinality(Occurrences(RenderedMessage, Bullet \o " ")) = Len(db.contacts)

\* a list holding a contact flagged urgent that is not of type Emergency, a contact
\* of type Emergency that is not flagged, and a general one
C25_Witness ==
    /\ Rendered("formatEmergencyContacts")
    /\ \E contact \in RowsOf(db.contacts) : contact.is_urgent /\ contact.type # "Emergency"
    /\ \E contact \in RowsOf(db.contacts) : ~contact.is_urgent /\ contact.type = "Emergency"
    /\ \E contact \in RowsOf(db.contacts) : ~IsUrgentContact(contact)
    /\ Cardinality(Occurrences(RenderedMessage, Bullet \o " ")) = 3

StepLineOf(step) == ToString(step.step_number) \o ". " \o step.title \o ": " \o step.description

DocumentsHeading == "\n\nRequired Documents:\n"

\* C26: formatRegistrationResponse renders every step exactly once, in ascending
\* step-number order whatever order they were given in, then the document
\* checklist, in which exactly the documents with is_essential carry the mark.
C26_StepsSortedDocumentsMarked ==
    Rendered("formatRegistrationResponse") =>
        /\ Cardinality(Occurrences(RenderedMessage, DocumentsHeading)) = 1
        /\ \A step \in RowsOf(db.steps) :
            /\ Cardinality(Occurrences(RenderedMessage, StepLineOf(step))) = 1
            /\ IndexOf(RenderedMessage, StepLineOf(step)) < IndexOf(RenderedMessage, DocumentsHeading)
        /\ \A first, second \in RowsOf(db.steps) :
            first.step_number < second.step_number =>
                IndexOf(RenderedMessage, StepLineOf(first)) < IndexOf(RenderedMessage, StepLineOf(second))
        /\ \A doc \in RowsOf(db.documents) :
            LET plain == Bullet \o " " \o doc.document_name \o "\n"
                marked == Bullet \o " " \o doc.document_name \o " (Essential)\n"
                shown == IF doc.is_essential THEN marked ELSE plain
                other == IF doc.is_essential THEN plain ELSE marked
            IN  /\ Cardinality(Occurrences(RenderedMessage, shown)) = 1
                /\ Occurrences(RenderedMessage, other) = {}
                /\ IndexOf(RenderedMessage, DocumentsHeading) < IndexOf(RenderedMessage, shown)
        /\ Cardinality(Occurrences(RenderedMessage, "(Essential)"))
               = Cardinality({doc \in RowsOf(db.documents) : doc.is_essential})

\* steps 10, 2, 1 given in descending order, and both kinds of document
C26_Witness ==
    /\ Rendered("formatRegistrationResponse")
    /\ Len(db.steps) = 3 /\ Len(db.documents) = 2
    /\ db.steps[1].step_number = 10 /\ db.steps[2].step_number = 2 /\ db.steps[3].step_number = 1
    /\ IndexOf(RenderedMessage, "1. Report") < IndexOf(RenderedMessage, "2. Interview")
    /\ IndexOf(RenderedMessage, "2. Interview") < IndexOf(RenderedMessage, "10. Card")
    /\ Includes(RenderedMessage, "Passport (Essential)")

NotInitialized == Some("Dialogflow client not initialized")

\* C27: once the resolver is constructed, isEnabled holds only if the client and
\* the project id are both set, and the "Dialogflow client not initialized" error
\* of handleMessageWithDialogflow is never raised.
C27_EnabledImpliesClient ==
    \A r \in Runs :
        IsSome(svc[r]) =>
            /\ svc[r][1].isEnabled => svc[r][1].sessionsClient /\ svc[r][1].projectId # None
            /\ result[r].error # NotInitialized

\* Dialogflow was configured, the client could not be built, and a message was
\* then taken to a keyword handler with no error in flight
C27_Witness ==
    /\ env["a"].dialogflowEnabled /\ env["a"].dialogflowProjectId # ""
    /\ IsSome(svc["a"]) /\ ~svc["a"][1].isEnabled /\ ~svc["a"][1].sessionsClient
    /\ pc["a"] = "awaitFetch"
    /\ result["a"].error = None
    /\ Len(EventsOf("a", "detectIntent")) = 0

\* a message that passes the checks of processMessage is accepted in this step
AcceptsMessage(r) ==
    /\ pc[r] = "idle"
    /\ IsSome(call'[r])
    /\ Len(call'[r][1].text) <= MaxMessageLength
    /\ ~IsBlank(call'[r][1].text)

\* C28: no step taken after construction changes isEnabled, the client or the
\* project id of the resolver, and every message accepted, whatever happened to
\* the messages before it, goes to the remote NLU first iff the resolver was
\* built enabled.
C28_ResolverConfigurationFrozen ==
    [][\A r \in Runs :
          /\ IsSome(svc[r]) => svc'[r] = svc[r]
          /\ AcceptsMessage(r) => (pc'[r] = "awaitDetectIntent" <=> svc[r][1].isEnabled)]_vars

\* a message whose detectIntent call raised has been answered by the keyword path,
\* and the resolver is as it was built: enabled, with client and project id
C28_Witness ==
    /\ Answered("a")
    /\ result["a"].nlu # None /\ result["a"].nlu[1].kind = "raise"
    /\ Len(EventsOf("a", "resolve")) > 0
    /\ svc["a"] = Some(NewDialogflowService(env["a"], TRUE))
    /\ svc["a"][1].isEnabled

\* how many times the stage `name` called next() for the request of run r
NextCalls(r, name) == Len(SelectSeq(http[r].next, LAMBDA stage : stage = name))

\* the responses twilioWebhookValidator sends: 403 and 500 with these codes
ValidatorResponses ==
    {HttpResponse(403, "MISSING_SIGNATURE"), HttpResponse(500, "CONFIG_ERROR"),
     HttpResponse(500, "VALIDATION_ERROR"), HttpResponse(403, "INVALID_SIGNATURE")}

SentByValidator(r) == SelectSeq(http[r].sent, LAMBDA response : response \in ValidatorResponses)

\* the branch of twilioWebhookValidator the request of run r takes
ValidatorBranch(r) ==
    IF ~isProduction(env[r]) THEN "bypass"
    ELSE IF req[r][1].signature = None THEN "missing header"
    ELSE IF env[r].twilioAuthToken = "" THEN "missing secret"
    ELSE IF UrlMalformed(ReconstructedUrl(req[r][1])) THEN "exception"
    ELSE IF SignatureMatched(r) THEN "valid signature"
    ELSE "invalid signature"

\* C29: once twilioWebhookValidator has run for a request, on whichever branch,
\* it has either called next once and sent nothing, or sent one response and not
\* called next; the bypass and the valid signature are the branches that go on.
C29_NextOrRespond ==
    \A r \in Runs :
        PastValidator(r) =>
            LET calls == NextCalls(r, "twilioWebhookValidator")
                sent == Len(SentByValidator(r))
            IN  /\ (calls = 1 /\ sent = 0) \/ (calls = 0 /\ sent = 1)
                /\ calls = 1 <=> ValidatorBranch(r) \in {"bypass", "valid signature"}
                /\ pc[r] = "validateTwilioWebhook" => http[r].sent = <<>>
                /\ calls = 0 => pc[r] = "done" /\ Len(http[r].sent) = 1

\* verification raised on a signed request: one 500 response, next never called
C29_Witness ==
    /\ PastValidator("a")
    /\ ValidatorBranch("a") = "exception"
    /\ http["a"].sent = <<HttpResponse(500, "VALIDATION_ERROR")>>
    /\ http["a"].next = <<>>

RouteStages == <<"twilioWebhookValidator", "validateTwilioWebhook">>

\* the Body of the request of run r is a string of more than `low` characters
BodyLongerThan(r, low) == IsSome(req[r][1].Body) /\ Len(req[r][1].Body[1]) > low

\* C30: on the webhook route the signature validator, the payload validator and
\* the handler run in this order; processMessage gets the From and Body of the
\* request, a whatsapp:+<1 to 15 digits> address and a non-blank text of at most
\* 1000 characters; it never gives the instructional reply; a Body of 501 to 1000
\* characters gets the "too long" reply; a longer Body never reaches it.
C30_WebhookContract ==
    \A r \in Runs :
        IsSome(req[r]) =>
            /\ http[r].next = SubSeq(RouteStages, 1, Len(http[r].next))
            /\ pc[r] = "handleWhatsAppWebhook" \/ Called(r) => http[r].next = RouteStages
            /\ BodyLongerThan(r, MaxBodyLength) => ~Called(r) /\ pc[r] # "handleWhatsAppWebhook"
            /\ Called(r) =>
                /\ call[r][1].via = "webhook"
                /\ Some(call[r][1].phone) = req[r][1].From
                /\ Some(TextOf(r)) = req[r][1].Body
                /\ PhoneRegexTest(call[r][1].phone)
                /\ Len(TextOf(r)) <= MaxBodyLength
                /\ \E i \in 1..Len(TextOf(r)) : ~IsWhitespace(CharAt(TextOf(r), i))
                /\ Answered(r) =>
                    /\ result[r].pmResponse # Some(InstructionResponse)
                    /\ BodyLongerThan(r, MaxMessageLength) =>
                           result[r].pmResponse = Some(TooLongResponse)

\* a Body of exactly 1000 characters passed both validators and was answered with
\* the "too long" reply, sent as TwiML
C30_Witness ==
    /\ IsSome(req["a"]) /\ Called("a")
    /\ Len(TextOf("a")) = MaxBodyLength
    /\ pc["a"] = "done"
    /\ http["a"].sent = <<HttpResponse(200, TooLongResponse.message)>>

====
